---- MODULE Spec2Model ----
(***************************************************************************)
(* A model of the asha-rag-chatbot core: the web-search client             *)
(* (src/src/tools/web_search.py), the caching domain tools                 *)
(* (src/src/tools/*.py) and the orchestrator's process_query               *)
(* (src/src/agent/orchestrator.py).                                        *)
(*                                                                         *)
(* Time is counted in whole hours.  A result string "<title>: <snippet>"   *)
(* is a natural number >= 1; the sentinel "No results found." holds no     *)
(* ": " and so is no provider string: it is the number 0.  A cache file    *)
(* is named by the MD5 digest of the query; distinct queries of the model  *)
(* have distinct digests, so a file is indexed by its query.               *)
(***************************************************************************)
EXTENDS Naturals, Sequences, FiniteSets, TLC

VARIABLES
    now,            \* datetime.now(), in hours
    serp_api_key,   \* WebSearchTool.serp_api_key is set
    news_api_key,   \* WebSearchTool.news_api_key is set
    wsCache,        \* ~/.cache/asha_ai/web_search/<md5>.json, per query
    wsLast,         \* what the last WebSearchTool._execute did
    tool,           \* the domain tool whose instance is exercised
    toolCache,      \* that tool's cache_dir / <key>.json, per classified key
    toolLast,       \* what the last _execute of the tool did
    knowledge_base, \* Orchestrator.knowledge_base is set
    tool_registry,  \* Orchestrator.tool_registry is set
    conversation_history,   \* Orchestrator.conversation_history
    callLog,        \* every process_query call so far: its query and what it returned
    orchLast,       \* what the last process_query did
    registry_instance,  \* ToolRegistry._instance: 0 for None, or the object
    registry_objects,   \* the `tools` dictionary of each ToolRegistry object
    bindings,       \* what the name of each decorated tool class denotes
    registered,     \* per tool name, the instance last passed to a register that took it
    regLast,        \* what the last registry operation did
    selLast,        \* the last _select_tools call: the scores and the tools returned
    scoreLast,      \* the last _score_tool call: its arguments and the score returned
    srp_api_key,    \* KnowledgeBase.srp_api_key is set
    kb_news_api_key,    \* KnowledgeBase.news_api_key is set
    kbDocs,         \* the three JSON documents of the knowledge base
    kbLast,         \* what the last knowledge-base refresh did
    racers,         \* two concurrent refreshes of career_resources.json
    jobsLast,       \* the last _analyze_women_friendly_jobs call
    cleanLast       \* the last _clean_text call

wsVars == <<serp_api_key, news_api_key, wsCache, wsLast>>
toolVars == <<tool, toolCache, toolLast>>
orchVars == <<knowledge_base, tool_registry, conversation_history, callLog, orchLast>>

regVars == <<registry_instance, registry_objects, bindings, registered, regLast>>

pureVars == <<selLast, scoreLast, jobsLast, cleanLast>>

kbVars == <<srp_api_key, kb_news_api_key, kbDocs, kbLast, racers>>

vars == <<now, wsVars, toolVars, orchVars, regVars, pureVars, kbVars>>

---------------------------------------------------------------------------
(* Bounds of the model *)

MaxTime == 24          \* the clock stops here
WsTickStep == 12       \* hours between two uses of the web-search client
ToolTickStep == 6      \* hours between two uses of a domain tool
MaxCalls == 2          \* process_query calls in a behaviour
MaxInstances == 2      \* instances of one tool class handed to register
MaxScore == 2          \* the largest score, in tenths, given to a tool of the pool
MaxWords == 3          \* distinct words in the texts that are scored
MaxResults == 1        \* results in one upstream response of a refresh
MaxJobs == 3           \* listings handed to _analyze_women_friendly_jobs
MaxMatches == 2        \* keywords of one dimension found in a listing
MaxText == 5           \* characters of a text handed to _clean_text

(* Program constants *)

WS_MAX_AGE_HOURS == 24     \* _load_from_cache(max_age_hours = 24)
WS_LIMIT == 5              \* [:5] and len(results) < 5

Sentinel == 0              \* "No results found."

Queries == {"q1", "q2"}

---------------------------------------------------------------------------
(* Python helpers *)

Min(a, b) == IF a < b THEN a ELSE b

\* s[:n]
Take(s, n) == SubSeq(s, 1, Min(n, Len(s)))

SeqToSet(s) == {s[i] : i \in 1..Len(s)}

\* list(dict.fromkeys(s)): the first occurrence of each element, in order
RECURSIVE DictFromKeys(_)
DictFromKeys(s) ==
    IF s = <<>> THEN <<>>
    ELSE LET init == DictFromKeys(SubSeq(s, 1, Len(s) - 1))
             last == s[Len(s)]
         IN  IF last \in SeqToSet(init) THEN init ELSE Append(init, last)

\* The outcome of a call: a value or an exception.
Ok(v) == [exc |-> FALSE, val |-> v]
Exc == [exc |-> TRUE, val |-> <<>>]

\* try: ... except Exception: return []
CatchEmpty(r) == IF r.exc THEN Ok(<<>>) ELSE r

---------------------------------------------------------------------------
(* Cache files of the web-search client *)

NoFile == [kind |-> "none", timestamp |-> 0, results |-> <<>>]
Corrupt == [kind |-> "corrupt", timestamp |-> 0, results |-> <<>>]
Entry(ts, rs) == [kind |-> "entry", timestamp |-> ts, results |-> rs]

\* mutant: an entry exactly max_age_hours old still counts as fresh
_is_cache_fresh_inclusive(t, timestamp, max_age_hours) == (t - timestamp) <= max_age_hours

\* _is_cache_fresh: age.total_seconds() < max_age_hours * 3600
_is_cache_fresh(t, timestamp, max_age_hours) == (t - timestamp) < max_age_hours

None == [found |-> FALSE, val |-> <<>>]
Some(v) == [found |-> TRUE, val |-> v]

\* try: ... except Exception: (log); falls through to `return None`
CatchNone(r) == IF r.exc THEN Ok(None) ELSE r

\* the try block of _load_from_cache: json.load and data['timestamp'] raise
\* on an unreadable file
LoadBody(cache, t, query) ==
    LET f == cache[query]
    IN  IF f.kind = "corrupt" THEN Exc
        ELSE IF _is_cache_fresh(t, f.timestamp, WS_MAX_AGE_HOURS)
             THEN Ok(Some(f.results))
             ELSE Ok(None)

\* _load_from_cache: the cached results, or None
_load_from_cache(cache, t, query) ==
    IF cache[query].kind = "none" THEN Ok(None)
    ELSE CatchNone(LoadBody(cache, t, query))

\* How a write of the cache file ends: "ok"; "open_fails" (the file is left
\* as it was); "dump_fails" (open(..., 'w') has truncated the file).
WriteOutcomes == {"ok", "open_fails", "dump_fails"}

\* the try block of _save_to_cache
SaveBody(cache, t, query, results, w) ==
    IF w = "ok" THEN [exc |-> FALSE, val |-> [cache EXCEPT ![query] = Entry(t, results)]]
    ELSE IF w = "dump_fails" THEN [exc |-> TRUE, val |-> [cache EXCEPT ![query] = Corrupt]]
    ELSE [exc |-> TRUE, val |-> cache]

\* _save_to_cache: the files after the call; a failure is logged
_save_to_cache(cache, t, query, results, w) ==
    [exc |-> FALSE, val |-> SaveBody(cache, t, query, results, w).val]

---------------------------------------------------------------------------
(* The two providers.  A response is [kind, items]: "ok" with the raw      *)
(* organic_results / articles, or "error" (transport, HTTP status, JSON,   *)
(* a result without its title or snippet).                                 *)

RawOk(items) == [kind |-> "ok", items |-> items]
RawError == [kind |-> "error", items |-> <<>>]

\* what provider A (general search) may answer to a query
SerpResponses(query) ==
    IF query = "q1"
    THEN { RawError, RawOk(<<>>), RawOk(<<2, 1, 2>>), RawOk(<<1, 2, 3, 4>>),
           RawOk(<<1, 1, 2, 3, 4>>), RawOk(<<1, 2, 3, 4, 5, 6>>) }
    ELSE { RawError, RawOk(<<8, 9>>) }

\* what provider B (news) may answer to a query
NewsResponses(query) ==
    IF query = "q1"
    THEN { RawError, RawOk(<<>>), RawOk(<<7, 1, 7>>), RawOk(<<4, 5, 6, 7>>),
           RawOk(<<6, 7, 8, 9, 10, 11>>) }
    ELSE { RawOk(<<>>), RawOk(<<9, 1>>) }

\* the body of the try block of a provider search
ProviderBody(resp) ==
    IF resp.kind = "error" THEN Exc ELSE Ok(Take(resp.items, WS_LIMIT))

_search_serp_api(key, resp) ==
    IF ~key THEN Ok(<<>>) ELSE CatchEmpty(ProviderBody(resp))

\* mutant: the news search without its try/except
_search_news_api_uncaught(key, resp) ==
    IF ~key THEN Ok(<<>>) ELSE ProviderBody(resp)

_search_news_api(key, resp) ==
    IF ~key THEN Ok(<<>>) ELSE CatchEmpty(ProviderBody(resp))

---------------------------------------------------------------------------
(* WebSearchTool._execute *)

WsOutcome(raised, ret, hit, calls, serp, news, saved, cache) ==
    [raised |-> raised, ret |-> ret, hit |-> hit, calls |-> calls,
     serp |-> serp, news |-> news, saved |-> saved, cache |-> cache]

WsRaise(calls, cache) ==
    WsOutcome(TRUE, <<>>, FALSE, calls, <<>>, <<>>, FALSE, cache)

\* mutant: the news provider is asked whatever the first provider gave
NeedNews_always(results) == TRUE

\* mutant: the duplicates are kept
DedupeAndLimit_keepsDuplicates(results) == Take(results, WS_LIMIT)

\* mutant: the list is cached even when empty
ShouldCache_always(results) == TRUE

\* line 154: if len(results) < 5
NeedNews(results) == Len(results) < WS_LIMIT

\* line 159: list(dict.fromkeys(results))[:5]
DedupeAndLimit(results) == Take(DictFromKeys(results), WS_LIMIT)

\* line 162: if results
ShouldCache(results) == results # <<>>

\* lines 145-165: the searches, the deduplication and the save
WsMiss(cache, t, sk, nk, query, respA, respB, w) ==
    LET serp == _search_serp_api(sk, respA)
    IN  IF serp.exc THEN WsRaise(<<"serp">>, cache)
        ELSE
        LET results1 == IF serp.val # <<>> THEN serp.val ELSE <<>>
            askNews == NeedNews(results1)
            news == IF askNews THEN _search_news_api(nk, respB) ELSE Ok(<<>>)
            calls == IF askNews THEN <<"serp", "news">> ELSE <<"serp">>
        IN  IF news.exc THEN WsRaise(calls, cache)
            ELSE
            LET results == DedupeAndLimit(results1 \o news.val)
                saved == IF ShouldCache(results)
                         THEN _save_to_cache(cache, t, query, results, w)
                         ELSE [exc |-> FALSE, val |-> cache]
            IN  IF saved.exc THEN WsRaise(calls, saved.val)
                ELSE WsOutcome(FALSE,
                               IF results # <<>> THEN results ELSE <<Sentinel>>,
                               FALSE, calls, serp.val, news.val,
                               ShouldCache(results), saved.val)

WebSearchTool_execute(cache, t, sk, nk, query, respA, respB, w) ==
    LET cached_results == _load_from_cache(cache, t, query)
    IN  IF cached_results.exc THEN WsRaise(<<>>, cache)
        ELSE IF cached_results.val.found /\ cached_results.val.val # <<>>
        THEN WsOutcome(FALSE, cached_results.val.val, TRUE, <<>>, <<>>, <<>>,
                       FALSE, cache)
        ELSE WsMiss(cache, t, sk, nk, query, respA, respB, w)

---------------------------------------------------------------------------
(* The caching domain tools: classify, load the cached payload or fetch it *)
(* aspect by aspect through the web-search client, save, format.           *)
(* The cache directory is writable: a save succeeds.                       *)

Tools ==
    {"job_search", "event_recommender", "skill_gap", "interview_prep",
     "success_stories", "women_wellness"}

\* mutant: every tool keeps its payload for 24 hours
ToolTTL_uniform(t) == 24

\* the age, in hours, below which a tool's cached payload is used
ToolTTL(t) ==
    CASE t = "job_search" -> 6
      [] t = "event_recommender" -> 12
      [] OTHER -> 24

\* the keys of the tool's `queries` dictionary, in insertion order
ToolAspects(t) ==
    CASE t = "job_search" ->
             <<"job_listings", "salary_insights", "company_insights", "market_trends",
               "remote_opportunities", "skill_requirements", "women_friendly_companies">>
      [] t = "event_recommender" ->
             <<"upcoming_events", "conferences", "workshops", "networking_events",
               "hackathons", "women_tech_events", "virtual_events">>
      [] t = "skill_gap" ->
             <<"required_skills", "emerging_skills", "learning_resources",
               "industry_trends", "certifications", "skill_importance">>
      [] t = "interview_prep" ->
             <<"common_questions", "technical_questions", "behavioral_questions",
               "company_insights", "interview_tips", "salary_negotiation">>
      [] t = "success_stories" ->
             <<"success_stories", "career_transitions", "learning_paths",
               "challenges_overcome", "advice", "industry_insights">>
      [] OTHER ->
             <<"mental_health", "work_life_balance", "physical_wellness",
               "support_networks", "stress_management", "career_wellness",
               "community_resources">>

\* the classified keys of the model (a role, a category, with or without a
\* location) and the experience levels a query may name
Keys == {"key_a", "key_b"}
Levels == {"entry", "senior"}
Intents == [key : Keys, level : Levels]

\* the job-search query templates that hold {experience_level}
UsesLevel(t, aspect) ==
    /\ t = "job_search"
    /\ aspect \in {"job_listings", "salary_insights", "remote_opportunities",
                   "skill_requirements"}

\* the query string built for an aspect: what it is made from
AspectQuery(t, aspect, intent) ==
    [aspect |-> aspect, key |-> intent.key,
     level |-> IF UsesLevel(t, aspect) THEN intent.level ELSE "-"]

\* Python values held under an aspect: the list [] of the skeleton, or the
\* dictionary {raw_data, formatted_response} that BaseTool.execute returns
\* for a query (found: the search gave results, not the sentinel)
EmptyList == [type |-> "list", query |-> [aspect |-> "-", key |-> "-", level |-> "-"], found |-> FALSE]
Envelope(query, found) == [type |-> "dict", query |-> query, found |-> found]

\* self.web_search.execute(query): BaseTool.execute wraps the result list
WebSearch_execute(query, found) == Envelope(query, found)

\* what the fetch loop stores under the aspect
StoreResult(t, results) ==
    IF t \in {"skill_gap", "success_stories"}
    THEN (IF results.type = "list" THEN results ELSE EmptyList)
    ELSE results

\* how many aspects the fetch loop goes through before it returns
FetchIterations(t) ==
    IF t = "event_recommender" THEN 1 ELSE Len(ToolAspects(t))

\* _fetch_*_data: the dictionary built, and the searches issued
Fetch(t, intent, found) ==
    LET aspects == ToolAspects(t)
        n == FetchIterations(t)
    IN  [data |-> [a \in SeqToSet(aspects) |->
                      IF \E i \in 1..n : aspects[i] = a
                      THEN StoreResult(t, WebSearch_execute(AspectQuery(t, a, intent), found))
                      ELSE EmptyList],
         searched |-> [i \in 1..n |-> AspectQuery(t, aspects[i], intent)]]

\* cache files of a tool
ToolNoFile == [kind |-> "none", timestamp |-> 0, data |-> <<>>]
ToolCorrupt == [kind |-> "corrupt", timestamp |-> 0, data |-> <<>>]
ToolEntry(ts, data) == [kind |-> "entry", timestamp |-> ts, data |-> data]

\* mutant: an entry exactly as old as the TTL still counts as fresh
ToolFresh_inclusive(t, time, timestamp) == (time - timestamp) <= ToolTTL(t)

\* age.total_seconds() < TTL * 3600
ToolFresh(t, time, timestamp) == (time - timestamp) < ToolTTL(t)

\* _load_*_data: the cached payload if the file parses and is fresh, or None
ToolLoad(t, cache, time, key) ==
    LET f == cache[key]
    IN  IF f.kind = "entry" /\ ToolFresh(t, time, f.timestamp) THEN Some(f) ELSE None

\* _save_*_data: data['timestamp'] = now; json.dump
ToolSave(cache, time, key, data) == [cache EXCEPT ![key] = ToolEntry(time, data)]

\* _format_response slices data[aspect][:k]: a dictionary cannot be sliced
FormatRaises(t, data) == \E a \in DOMAIN data : data[a].type = "dict"

\* mutant: a cached payload fetched for another experience level is not used
Tool_execute_keyedByLevel(t, cache, time, intent, found) ==
    LET loaded == ToolLoad(t, cache, time, intent.key)
        fetched == Fetch(t, intent, found)
        after == ToolSave(cache, time, intent.key, fetched.data)
    IN  IF loaded.found /\ loaded.val.data = fetched.data
        THEN [hit |-> TRUE, payload |-> loaded.val, searched |-> <<>>,
              saved |-> FALSE, cache |-> cache,
              raised |-> FormatRaises(t, loaded.val.data)]
        ELSE [hit |-> FALSE, payload |-> after[intent.key],
              searched |-> fetched.searched, saved |-> TRUE, cache |-> after,
              raised |-> FormatRaises(t, fetched.data)]

\* _execute of a domain tool
Tool_execute(t, cache, time, intent, found) ==
    LET loaded == ToolLoad(t, cache, time, intent.key)
    IN  IF loaded.found
        THEN [hit |-> TRUE, payload |-> loaded.val, searched |-> <<>>,
              saved |-> FALSE, cache |-> cache,
              raised |-> FormatRaises(t, loaded.val.data)]
        ELSE LET fetched == Fetch(t, intent, found)
                 after == ToolSave(cache, time, intent.key, fetched.data)
             IN  [hit |-> FALSE, payload |-> after[intent.key],
                  searched |-> fetched.searched, saved |-> TRUE, cache |-> after,
                  raised |-> FormatRaises(t, fetched.data)]

\* toolLast: the intent of the last call, the cache file it found and the
\* age of its entry, whether the file differs afterwards, and the outcome
ToolIdle ==
    [intent |-> [key |-> "none", level |-> "-"], preKind |-> "none", age |-> 0,
     payloadIsPre |-> FALSE, fileChanged |-> FALSE, stored |-> FALSE,
     found |-> FALSE,
     op |-> [hit |-> FALSE, payload |-> ToolNoFile, searched |-> <<>>,
             saved |-> FALSE, cache |-> <<>>, raised |-> FALSE]]

\* the domain tools are not part of the behaviour
ToolsUnused ==
    /\ tool = "none"
    /\ toolCache = <<>>
    /\ toolLast = ToolIdle

---------------------------------------------------------------------------
(* The orchestrator: Orchestrator.process_query and what it calls.         *)
(* A string is a record [kind, body, kb, tools]: a query text, or a        *)
(* response by its kind, with the sections it holds (kb: "Based on my      *)
(* research"; tools: the tools listed under "Additional Information").     *)
(* The timestamp of a history entry is left out.                           *)

Text(kind, body, kb, tools) == [kind |-> kind, body |-> body, kb |-> kb, tools |-> tools]

\* the values passed as `query`: strings, None, an integer
PyStr(body) == [type |-> "str", str |-> Text("query", body, FALSE, <<>>)]
PyNone == [type |-> "NoneType", str |-> Text("query", "", FALSE, <<>>)]
PyInt5 == [type |-> "int", str |-> Text("query", "5", FALSE, <<>>)]

QueryInputs ==
    {PyStr("hello there"), PyStr("data scientist python jobs"), PyStr(""), PyNone, PyInt5}

\* bool(query)
Truthy(query) == query.type # "NoneType" /\ query.str.body # ""

\* the responses of process_query
CouldntProcess(reason) == Text("couldnt_process", reason, FALSE, <<>>)
UnexpectedError == Text("unexpected_error", "", FALSE, <<>>)
ResponseError == Text("response_error", "", FALSE, <<>>)
GenerateError == Text("generate_error", "", FALSE, <<>>)
CannedNoInfo == Text("no_info", "", FALSE, <<>>)
Assembled(kb, tools) == Text("assembled", "", kb, tools)

\* the outcome of a step: a value, or an exception of a class
Returns(v) == [exc |-> "none", val |-> v]
Raises(class, reason) == [exc |-> class, val |-> reason]

\* the tools of the registry, in insertion order (get_all_tools().values())
RegisteredTools == <<"job_search", "web_search">>

\* spec section 4.6: the two selection knobs; scores are in tenths
MAX_TOOLS_PER_QUERY == 5
MIN_SIMILARITY_SCORE == 1

\* what _score_tool gives each tool for a query, in tenths
ScoreVectors ==
    { [t \in SeqToSet(RegisteredTools) |-> 0],
      [t \in SeqToSet(RegisteredTools) |-> IF t = "job_search" THEN 3 ELSE 1],
      [t \in SeqToSet(RegisteredTools) |-> IF t = "job_search" THEN 1 ELSE 3],
      [t \in SeqToSet(RegisteredTools) |-> IF t = "job_search" THEN 0 ELSE 2],
      [t \in SeqToSet(RegisteredTools) |-> 2] }

\* mutant: the scored tools stay in registry order
SortByScore_registryOrder(tools, score) == tools

\* list.sort(key=score, reverse=True): stable, by insertion of each element
\* before the first one with a smaller score
RECURSIVE SortByScore(_, _)
SortByScore(tools, score) ==
    IF tools = <<>> THEN <<>>
    ELSE LET sorted == SortByScore(SubSeq(tools, 1, Len(tools) - 1), score)
             x == tools[Len(tools)]
             k == Cardinality({i \in 1..Len(sorted) : score[sorted[i]] >= score[x]})
         IN  SubSeq(sorted, 1, k) \o <<x>> \o SubSeq(sorted, k + 1, Len(sorted))

\* s filtered by a set, order kept
RECURSIVE SelectSeq2(_, _)
SelectSeq2(s, keep) ==
    IF s = <<>> THEN <<>>
    ELSE IF s[1] \in keep THEN <<s[1]>> \o SelectSeq2(Tail(s), keep)
    ELSE SelectSeq2(Tail(s), keep)

\* mutant: the scored tools are not sorted before the slice
_select_tools_unsorted(all_tools, score) ==
    LET top == Take(all_tools, MAX_TOOLS_PER_QUERY)
    IN  SelectSeq2(top, {t \in SeqToSet(top) : score[t] >= MIN_SIMILARITY_SCORE})

\* _select_tools: the top MAX_TOOLS_PER_QUERY by score, those of them that
\* reach MIN_SIMILARITY_SCORE
_select_tools(all_tools, score) ==
    LET top == Take(SortByScore(all_tools, score), MAX_TOOLS_PER_QUERY)
    IN  SelectSeq2(top, {t \in SeqToSet(top) : score[t] >= MIN_SIMILARITY_SCORE})

\* a registry of six tools, in insertion order, and the scores given to them
SelectPool ==
    <<"skill_gap", "success_stories", "job_search", "interview_prep",
      "event_recommender", "web_search">>
PoolScores == [SeqToSet(SelectPool) -> 0..MaxScore]

\* selLast, before any call
SelIdle == [called |-> FALSE, score |-> [t \in SeqToSet(SelectPool) |-> 0], selected |-> <<>>]

\* what get_career_guidance may do: raise, return something that is no
\* dictionary, an empty dictionary, or a merged view (whose entries, built
\* at knowledge_base.py:189-194, 221-227 and 254-259, all hold a title)
KbOutcomes == {"raises", "not_dict", "empty", "view"}

\* mutant: only a raise is replaced by {}; a value that is no dictionary is
\* passed on, and being truthy it opens the knowledge-base section
KbResults_keepsNonDict(kbOutcome) ==
    IF kbOutcome = "raises" THEN "empty"
    ELSE IF kbOutcome = "not_dict" THEN "view"
    ELSE kbOutcome

\* lines 92-98: kb_results, {} on any failure
KbResults(kbOutcome) ==
    IF kbOutcome \in {"raises", "not_dict"} THEN "empty" ELSE kbOutcome

\* what tool.execute does: BaseTool.execute, which no tool overrides,
\* returns the envelope dictionary of wrap_response unless _execute raises
ExecOutcomes == {"raises", "dict"}

\* mutant: the first tool that raises ends the loop
RECURSIVE ExecuteTools_stopAtRaise(_, _)
ExecuteTools_stopAtRaise(selected, outcome) ==
    IF selected = <<>> THEN [executed |-> <<>>, results |-> <<>>]
    ELSE IF outcome[selected[1]] = "raises"
    THEN [executed |-> <<selected[1]>>, results |-> <<>>]
    ELSE LET rest == ExecuteTools_stopAtRaise(Tail(selected), outcome)
         IN  [executed |-> <<selected[1]>> \o rest.executed,
              results |-> <<selected[1]>> \o rest.results]

\* lines 110-117: the tools whose execute was called, and the results kept
\* (a non-empty string or dictionary), both in execution order
RECURSIVE ExecuteTools(_, _)
ExecuteTools(selected, outcome) ==
    IF selected = <<>> THEN [executed |-> <<>>, results |-> <<>>]
    ELSE LET rest == ExecuteTools(Tail(selected), outcome)
         IN  [executed |-> <<selected[1]>> \o rest.executed,
              results |-> (IF outcome[selected[1]] \in {"dict", "str"}
                           THEN <<selected[1]>> ELSE <<>>) \o rest.results]

\* _generate_response: a KeyError on an entry without title is caught inside
_generate_response(kb_results, tool_results) ==
    IF kb_results = "malformed" THEN GenerateError
    ELSE IF kb_results = "empty" /\ tool_results = <<>> THEN CannedNoInfo
    ELSE Assembled(kb_results # "empty", tool_results)

\* lines 120-127: a response that is no non-empty string, or a raise, gives
\* the apology
GuardResponse(r) ==
    IF r.exc # "none" \/ r.val.kind \notin {"generate_error", "no_info", "assembled"}
    THEN ResponseError
    ELSE r.val

\* lines 53-89: the role handed to get_career_guidance
ExtractRole(body) ==
    IF body = "data scientist python jobs" THEN "data scientist" ELSE "software developer"

\* mutant: the two references are not verified
Validate_queryOnly(query, kbSet, regSet) ==
    IF ~Truthy(query) \/ query.type # "str"
    THEN Raises("ValueError", "Invalid query: Query must be a non-empty string")
    ELSE Returns("")

\* lines 33-43: the validation
Validate(query, kbSet, regSet) ==
    IF ~Truthy(query) \/ query.type # "str"
    THEN Raises("ValueError", "Invalid query: Query must be a non-empty string")
    ELSE IF ~kbSet THEN Raises("ValueError", "Knowledge base not initialized")
    ELSE IF ~regSet THEN Raises("ValueError", "Tool registry not initialized")
    ELSE Returns("")

UserEntry(query) == [role |-> "user", content |-> query.str]
AssistantEntry(response) == [role |-> "assistant", content |-> response]

\* lines 46-50: the query is logged
LogUser(history, query) == Append(history, UserEntry(query))

\* mutant: the assistant turn is not logged
LogAssistant_skipped(history, response) == history

\* lines 129-133: the response is logged
LogAssistant(history, response) == Append(history, AssistantEntry(response))

\* mutant: the query is logged before it is validated
ProcessBody_logsFirst(history, query, kbSet, regSet, kbOutcome, score, outcome) ==
    LET valid == Validate(query, kbSet, regSet)
        history1 == LogUser(history, query)
    IN  IF valid.exc # "none"
        THEN [result |-> valid, history |-> history1, kbCalled |-> FALSE,
              role |-> "-", executed |-> <<>>]
        ELSE LET response ==
                     GuardResponse(Returns(_generate_response(
                         KbResults(kbOutcome),
                         ExecuteTools(_select_tools(RegisteredTools, score), outcome).results)))
             IN  [result |-> Returns(response),
                  history |-> LogAssistant(history1, response),
                  kbCalled |-> TRUE,
                  role |-> ExtractRole(query.str.body),
                  executed |-> ExecuteTools(_select_tools(RegisteredTools, score),
                                            outcome).executed]

\* lines 33-135: the try block; history is the list as the block leaves it
ProcessBody(history, query, kbSet, regSet, kbOutcome, score, outcome) ==
    LET valid == Validate(query, kbSet, regSet)
    IN  IF valid.exc # "none"
        THEN [result |-> valid, history |-> history, kbCalled |-> FALSE,
              role |-> "-", executed |-> <<>>]
        ELSE LET history1 == LogUser(history, query)
                 kb_results == KbResults(kbOutcome)
                 selected_tools == _select_tools(RegisteredTools, score)
                 ran == ExecuteTools(selected_tools, outcome)
                 tool_results == ran.results
                 response ==
                     GuardResponse(Returns(_generate_response(kb_results, tool_results)))
             IN  [result |-> Returns(response),
                  history |-> LogAssistant(history1, response),
                  kbCalled |-> TRUE,
                  role |-> ExtractRole(query.str.body),
                  executed |-> ran.executed]

\* mutant: only ValueError is handled; nothing else is
OuterHandlers_none(result) == result

\* lines 137-142: except ValueError / except Exception
OuterHandlers(result) ==
    IF result.exc = "ValueError" THEN Returns(CouldntProcess(result.val))
    ELSE IF result.exc # "none" THEN Returns(UnexpectedError)
    ELSE result

\* Orchestrator.process_query
process_query(history, query, kbSet, regSet, kbOutcome, score, outcome) ==
    LET body == ProcessBody(history, query, kbSet, regSet, kbOutcome, score, outcome)
    IN  [body EXCEPT !.result = OuterHandlers(body.result)]

OrchIdle ==
    [query |-> PyNone, result |-> Returns(UnexpectedError), kbCalled |-> FALSE,
     role |-> "-", executed |-> <<>>,
     faults |-> [kb |-> FALSE, tool |-> FALSE], kbOutcome |-> "-",
     score |-> [t \in SeqToSet(RegisteredTools) |-> 0], raisers |-> {},
     called |-> FALSE]

\* the orchestrator is not part of the behaviour
OrchUnused ==
    /\ knowledge_base = FALSE
    /\ tool_registry = FALSE
    /\ conversation_history = <<>>
    /\ callLog = <<>>
    /\ orchLast = OrchIdle

---------------------------------------------------------------------------
(* The tool registry: ToolRegistry, get_registry, register_tool.           *)
(* A tools dictionary is the sequence of its values in insertion order;    *)
(* an instance is [isTool, class, name, id].                               *)

\* the classes _initialize_tools imports and registers, in its order
ToolClasses ==
    <<"CareerPathTool", "SkillGapTool", "SuccessStoriesTool", "JobSearchTool",
      "InterviewPreparationTool", "EventRecommenderTool", "WebSearchTool",
      "WebScraperTool", "WomenWellnessTool">>

\* the name each class passes to BaseTool.__init__
ToolName(c) ==
    CASE c = "CareerPathTool" -> "career_path"
      [] c = "SkillGapTool" -> "skill_gap"
      [] c = "SuccessStoriesTool" -> "success_stories"
      [] c = "JobSearchTool" -> "job_search"
      [] c = "InterviewPreparationTool" -> "interview_prep"
      [] c = "EventRecommenderTool" -> "event_recommender"
      [] c = "WebSearchTool" -> "web_search"
      [] c = "WebScraperTool" -> "web_scraper"
      [] OTHER -> "women_wellness"

ToolNames == {ToolName(ToolClasses[i]) : i \in 1..Len(ToolClasses)}

\* the classes under @register_tool
DecoratedClasses ==
    {"SkillGapTool", "SuccessStoriesTool", "JobSearchTool", "InterviewPreparationTool",
     "EventRecommenderTool", "WebSearchTool", "WomenWellnessTool"}

\* the classes whose __init__ calls WebSearchTool()
UsesWebSearch(c) ==
    c \in {"SkillGapTool", "SuccessStoriesTool", "JobSearchTool",
           "InterviewPreparationTool", "EventRecommenderTool", "WomenWellnessTool"}

\* what importing the module of a class does: career_path is no module of
\* src/src/tools (present: it is supplied from elsewhere); skill_gap.py and
\* event_recommender.py do not compile
ImportOutcome(c, careerPathPresent) ==
    CASE c = "CareerPathTool" ->
             (IF careerPathPresent THEN "ok" ELSE "ModuleNotFoundError")
      [] c = "SkillGapTool" -> "SyntaxError"
      [] c = "EventRecommenderTool" -> "IndentationError"
      [] OTHER -> "ok"

\* the decorated classes whose module can be imported
ImportableDecorated == {c \in DecoratedClasses : ImportOutcome(c, FALSE) = "ok"}

Instance(c, id) == [isTool |-> TRUE, class |-> c, name |-> ToolName(c), id |-> id]
NotATool == [isTool |-> FALSE, class |-> "object", name |-> "-", id |-> 0]
NoTool == [isTool |-> FALSE, class |-> "NoneType", name |-> "-", id |-> 0]

\* the position of a name in a tools dictionary, 0 if absent
IndexOf(tools, name) ==
    IF \E i \in 1..Len(tools) : tools[i].name = name
    THEN CHOOSE i \in 1..Len(tools) : tools[i].name = name
    ELSE 0

\* mutant: a name already registered keeps its instance
register_keepFirst(tools, inst) ==
    IF ~inst.isTool \/ IndexOf(tools, inst.name) # 0 THEN tools ELSE Append(tools, inst)

\* ToolRegistry.register: self.tools[tool.name] = tool; a value that is no
\* BaseTool raises ValueError, which is caught and logged
register(tools, inst) ==
    IF ~inst.isTool THEN tools
    ELSE IF IndexOf(tools, inst.name) # 0
    THEN [tools EXCEPT ![IndexOf(tools, inst.name)] = inst]
    ELSE Append(tools, inst)

\* ToolRegistry.get_tool: self.tools.get(name)
get_tool(tools, name) ==
    IF IndexOf(tools, name) = 0 THEN NoTool ELSE tools[IndexOf(tools, name)]

\* ToolRegistry.get_all_tools: self.tools.copy()
get_all_tools(tools) == tools

\* calling the name of a class: a name bound to the inner function of
\* register_tool raises TypeError (cls is missing), and so does a
\* constructor that calls WebSearchTool() while that name is so bound
ConstructorRaises(binding, c) ==
    \/ (c \in DOMAIN binding /\ binding[c] = "function")
    \/ (UsesWebSearch(c) /\ binding["WebSearchTool"] = "function")

\* lines 40-48: register(C()) class by class, until a constructor raises
RECURSIVE RegisterEach(_, _, _)
RegisterEach(tools, classes, binding) ==
    IF classes = <<>> \/ ConstructorRaises(binding, classes[1]) THEN tools
    ELSE RegisterEach(register(tools, Instance(classes[1], 1)), Tail(classes), binding)

\* ToolRegistry._initialize_tools: the imports, then the registrations, in
\* one try whose except logs and returns
_initialize_tools(tools, binding, careerPathPresent) ==
    IF \E i \in 1..Len(ToolClasses) : ImportOutcome(ToolClasses[i], careerPathPresent) # "ok"
    THEN tools
    ELSE RegisterEach(tools, ToolClasses,
                      [c \in DOMAIN binding |-> "function"])

\* ToolRegistry.__new__: the one instance, made on the first call
ToolRegistry_new(instance, objects) ==
    IF instance = 0
    THEN [instance |-> Len(objects) + 1, fresh |-> TRUE]
    ELSE [instance |-> instance, fresh |-> FALSE]

\* ToolRegistry() / get_registry(): __new__, then __init__, which sets up
\* tools only on an object that has none
ToolRegistry(instance, objects, binding, careerPathPresent) ==
    LET made == ToolRegistry_new(instance, objects)
    IN  [instance |-> made.instance,
         objects |-> IF made.fresh
                     THEN Append(objects, _initialize_tools(<<>>, binding, careerPathPresent))
                     ELSE objects,
         initialised |-> made.fresh]

\* register_tool(tool_class): defines the inner function decorator(cls) and
\* returns it; `@register_tool class C` binds C to what it returns
register_tool(instance, objects, tool_class) ==
    [value |-> "function", instance |-> instance, objects |-> objects]

\* the instances handed to register directly, and a value that is no tool
RegClasses == {"WebScraperTool", "CareerPathTool"}
RegInputs == {Instance(c, i) : c \in RegClasses, i \in 1..MaxInstances} \cup {NotATool}

\* the names of a tools dictionary
NamesOf(tools) == {tools[i].name : i \in 1..Len(tools)}

\* the tools dictionary of the registry object, {} while there is none
CurrentTools(instance, objects) == IF instance = 0 THEN <<>> ELSE objects[instance]

\* regLast, before any operation
RegIdle ==
    [op |-> "none", class |-> "-", tool |-> NoTool, existed |-> FALSE, object |-> 0,
     toolsKept |-> TRUE, namesKept |-> TRUE, raised |-> FALSE]

\* the registry is not part of the behaviour
RegUnused ==
    /\ registry_instance = 0
    /\ registry_objects = <<>>
    /\ bindings = [c \in ImportableDecorated |-> "class"]
    /\ registered = [n \in ToolNames |-> NoTool]
    /\ regLast = RegIdle

---------------------------------------------------------------------------
(* Scoring: Orchestrator._score_tool and _calculate_similarity.  A text is *)
(* the set of its lowercased words, a word a number; a score is the exact  *)
(* fraction [num, den] that the floating-point expression rounds.          *)

Vocab == 1..MaxWords
WordSets == SUBSET Vocab

Fraction(num, den) == [num |-> num, den |-> den]
Zero == Fraction(0, 1)

\* mutant: the overlap is divided by the size of the first text
_calculate_similarity_overFirst(words1, words2) ==
    IF words1 # {}
    THEN Fraction(Cardinality(words1 \cap words2), Cardinality(words1))
    ELSE Zero

\* _calculate_similarity: len(intersection) / len(union) if union else 0.0
_calculate_similarity(words1, words2) ==
    IF words1 \cup words2 # {}
    THEN Fraction(Cardinality(words1 \cap words2), Cardinality(words1 \cup words2))
    ELSE Zero

\* the knowledge-base views handed to _score_tool: {}; a dictionary without
\* any of the four sections; sections whose titles and descriptions hold
\* the given words; a section that is no mapping of lists of dictionaries
KbViews ==
    {[kind |-> k, words |-> {}] : k \in {"empty", "no_sections", "malformed"}}
        \cup {[kind |-> "texts", words |-> w] : w \in WordSets}

\* lines 199-238: kb_score, or the exception of a malformed view
KbScore(query, kb) ==
    IF kb.kind = "malformed" THEN Raises("Exception", "")
    ELSE IF kb.kind = "texts" THEN Returns(_calculate_similarity(query, kb.words))
    ELSE Returns(Zero)

\* 0.7 * description_score + 0.3 * kb_score
Combine(d, k) == Fraction(7 * d.num * k.den + 3 * k.num * d.den, 10 * d.den * k.den)

\* _score_tool: any exception gives 0.0
_score_tool(query, description, kb) ==
    LET description_score == _calculate_similarity(query, description)
        kb_score == KbScore(query, kb)
    IN  IF kb_score.exc # "none" THEN Zero
        ELSE Combine(description_score, kb_score.val)

\* scoreLast, before any call
ScoreIdle ==
    [called |-> FALSE, query |-> {}, description |-> {},
     kb |-> [kind |-> "empty", words |-> {}], score |-> Zero]

---------------------------------------------------------------------------
(* JobSearchTool._analyze_women_friendly_jobs (src/src/tools/job_search.py) *)
(* A listing is the number of keywords of each of the six dimensions that   *)
(* its text holds; weights and scores are in tenths of a point.             *)

\* the weights of inclusive_policy, flexible_work, parental_benefits,
\* career_growth, supportive_culture, women_representation
ParameterWeights == <<50, 15, 5, 15, 5, 10>>

Parameters == 1..Len(ParameterWeights)

RECURSIVE SumSeq(_)
SumSeq(seq) == IF seq = <<>> THEN 0 ELSE seq[1] + SumSeq(Tail(seq))

\* the listings of the model
JobShapes ==
    { <<0, 0, 0, 0, 0, 0>>,
      <<0, 0, 0, 0, 1, 0>>,
      <<0, 0, 1, 0, 0, 0>>,
      <<MaxMatches, 0, 0, 0, 0, 0>>,
      <<0, 1, 0, MaxMatches, 0, 0>>,
      <<1, 1, 1, 1, 1, 1>>,
      <<MaxMatches, MaxMatches, MaxMatches, MaxMatches, MaxMatches, MaxMatches>> }

JobLists == UNION {[1..n -> JobShapes] : n \in 0..MaxJobs}

\* mutant: the score of a dimension is not capped
NormalizedScore_uncapped(param_score, weight) == param_score

\* normalized_score = min(param_score, weight)
NormalizedScore(param_score, weight) ==
    IF param_score < weight THEN param_score ELSE weight

\* the score a dimension adds: weight per keyword found, capped
ParamScore(matches, p) ==
    NormalizedScore(matches[p] * ParameterWeights[p], ParameterWeights[p])

\* round((total_score / max_possible_score) * 10, 1), in tenths
WomenFriendlyScore(total_score, max_possible_score) ==
    (200 * total_score + max_possible_score) \div (2 * max_possible_score)

\* the listing with its score and its analysis; pos is its place in the input
ScoredJob(jobs, i) ==
    LET analysis == [p \in Parameters |-> ParamScore(jobs[i], p)]
    IN  [pos |-> i, matches |-> jobs[i],
         women_friendly_score |-> WomenFriendlyScore(SumSeq(analysis),
                                                     SumSeq(ParameterWeights)),
         analysis |-> analysis]

\* sorted(..., key=score, reverse=True): a listing goes before the first
\* one with a smaller score
RECURSIVE InsertJob(_, _)
InsertJob(sorted, job) ==
    IF sorted = <<>> THEN <<job>>
    ELSE IF sorted[1].women_friendly_score < job.women_friendly_score
    THEN <<job>> \o sorted
    ELSE <<sorted[1]>> \o InsertJob(Tail(sorted), job)

RECURSIVE SortJobs(_)
SortJobs(scored) ==
    IF scored = <<>> THEN <<>>
    ELSE InsertJob(SortJobs(SubSeq(scored, 1, Len(scored) - 1)), scored[Len(scored)])

_analyze_women_friendly_jobs(jobs) ==
    SortJobs([i \in 1..Len(jobs) |-> ScoredJob(jobs, i)])

JobsIdle == [called |-> FALSE, jobs |-> <<>>, result |-> <<>>]

---------------------------------------------------------------------------
(* WebScraperTool._clean_text (src/src/tools/web_scraper.py).  A text is a *)
(* sequence of characters: "a" a word character, " " a space, "TAB" any    *)
(* other whitespace, "#" a character outside [\w\s.,!?-].                  *)

Chars == {"a", " ", "TAB", "#"}

Whitespace == {" ", "TAB"}

Texts == UNION {[1..n -> Chars] : n \in 0..MaxText}

\* re.sub(r'\s+', ' ', text): every run of whitespace becomes one space
RECURSIVE CollapseWhitespace(_)
CollapseWhitespace(text) ==
    IF text = <<>> THEN <<>>
    ELSE IF text[1] \in Whitespace
    THEN IF Len(text) > 1 /\ text[2] \in Whitespace
         THEN CollapseWhitespace(Tail(text))
         ELSE <<" ">> \o CollapseWhitespace(Tail(text))
    ELSE <<text[1]>> \o CollapseWhitespace(Tail(text))

\* re.sub(r'[^\w\s.,!?-]', '', text)
RECURSIVE RemoveSpecial(_)
RemoveSpecial(text) ==
    IF text = <<>> THEN <<>>
    ELSE (IF text[1] = "#" THEN <<>> ELSE <<text[1]>>) \o RemoveSpecial(Tail(text))

RECURSIVE LStrip(_)
LStrip(text) ==
    IF text # <<>> /\ text[1] \in Whitespace THEN LStrip(Tail(text)) ELSE text

RECURSIVE RStrip(_)
RStrip(text) ==
    IF text # <<>> /\ text[Len(text)] \in Whitespace
    THEN RStrip(SubSeq(text, 1, Len(text) - 1))
    ELSE text

\* str.strip()
Strip(text) == RStrip(LStrip(text))

_clean_text(text) == Strip(RemoveSpecial(CollapseWhitespace(text)))

CleanIdle == [called |-> FALSE, text |-> <<>>, out |-> <<>>]

\* the pure functions are not part of the behaviour
PureUnused ==
    /\ selLast = SelIdle
    /\ scoreLast = ScoreIdle
    /\ jobsLast = JobsIdle
    /\ cleanLast = CleanIdle

---------------------------------------------------------------------------
(* The knowledge base: the three documents and their refreshes             *)
(* (src/src/agent/knowledge_base.py).  A document is [state, top, cats,    *)
(* leaves, last_updated]: whether the file parses, its top-level keys, the *)
(* category keys of each section, and the entries under each category of   *)
(* the sections a refresh writes to.                                       *)

KbFiles == {"career_resources", "market_trends", "career_insights"}

\* _create_empty_json_file: the top-level keys of each document
SkeletonTop(file) ==
    CASE file = "career_resources" ->
             {"learning_resources", "career_paths", "last_updated", "source"}
      [] file = "market_trends" ->
             {"industry_trends", "job_market_insights", "last_updated", "source"}
      [] OTHER ->
             {"success_stories", "career_advice", "interview_insights",
              "skill_development", "last_updated", "source"}

\* _create_empty_json_file: the keys under each section
SkeletonCats(file) ==
    CASE file = "career_resources" ->
             [learning_resources |->
                  {"python_development", "web_development", "data_science",
                   "machine_learning", "cloud_computing"},
              career_paths |->
                  {"software_development", "data_engineering", "devops", "ai_ml",
                   "cloud_architecture"}]
      [] file = "market_trends" ->
             [industry_trends |->
                  {"software_development", "data_science", "ai_ml", "cloud_computing",
                   "cybersecurity"},
              job_market_insights |->
                  {"demand_level", "growth_rate", "top_companies", "required_skills",
                   "salary_ranges", "remote_opportunities"}]
      [] OTHER ->
             [success_stories |->
                  {"software_development", "data_science", "ai_ml", "cloud_computing",
                   "cybersecurity"},
              career_advice |-> {"entry_level", "mid_level", "senior_level"},
              interview_insights |->
                  {"technical_interviews", "behavioral_interviews", "system_design"},
              skill_development |->
                  {"technical_skills", "soft_skills", "leadership_skills"}]

\* the sections a refresh of the document files results under
TargetSections(file) ==
    CASE file = "career_resources" -> {"learning_resources"}
      [] file = "market_trends" -> {"industry_trends"}
      [] OTHER -> {"success_stories", "career_advice"}

\* the (section, category) pairs a refresh of the document may write to
LeafKeys(file) ==
    UNION {{<<sec, c>> : c \in SkeletonCats(file)[sec]} : sec \in TargetSections(file)}

\* the document _create_empty_json_file writes
Skeleton(file) ==
    [state |-> "json", top |-> SkeletonTop(file), cats |-> SkeletonCats(file),
     leaves |-> [k \in LeafKeys(file) |-> <<>>], last_updated |-> 0]

\* load_data of a file that cannot be read or parsed: {}
EmptyDict(file) ==
    [state |-> "json", top |-> {},
     cats |-> [sec \in DOMAIN SkeletonCats(file) |-> {}],
     leaves |-> [k \in LeafKeys(file) |-> <<>>], last_updated |-> 0]

\* load_data: the parsed document, {} on any failure
load_data(file, doc) == IF doc.state = "json" THEN doc ELSE EmptyDict(file)

\* an upstream result: whether it holds a title and a link (url), whether
\* the title holds "success", and the category keys the lowercased title holds
ResultShapes ==
    { [hasTitle |-> FALSE, hasLink |-> TRUE, success |-> FALSE, matches |-> {}],
      [hasTitle |-> TRUE, hasLink |-> TRUE, success |-> FALSE, matches |-> {}],
      [hasTitle |-> TRUE, hasLink |-> TRUE, success |-> FALSE, matches |-> {"data_science"}],
      [hasTitle |-> TRUE, hasLink |-> TRUE, success |-> TRUE,
       matches |-> {"data_science", "ai_ml"}],
      [hasTitle |-> TRUE, hasLink |-> TRUE, success |-> FALSE, matches |-> {"entry_level"}] }

\* what the upstream request of a refresh gives: a failure (transport, HTTP
\* status, JSON), the empty object, an object without organic_results /
\* articles, or an object with results
UpstreamResponses ==
    {[kind |-> k, results |-> <<>>] : k \in {"fail", "empty", "no_results"}}
        \cup {[kind |-> "results", results |-> r] :
                 r \in UNION {[1..n -> ResultShapes] : n \in 0..MaxResults}}

\* fetch_srp_data / fetch_news_data: {} without the credential or on any
\* failure, or the parsed response
FetchData(hasKey, resp) ==
    IF ~hasKey \/ resp.kind = "fail" THEN [kind |-> "empty", results |-> <<>>] ELSE resp

\* the results with a title and a link, in order
RECURSIVE ValidResults(_)
ValidResults(results) ==
    IF results = <<>> THEN <<>>
    ELSE (IF results[1].hasTitle /\ results[1].hasLink THEN <<results[1]>> ELSE <<>>)
         \o ValidResults(Tail(results))

\* the section a result goes to
SectionOf(file, r) ==
    CASE file = "career_resources" -> "learning_resources"
      [] file = "market_trends" -> "industry_trends"
      [] OTHER -> IF r.success THEN "success_stories" ELSE "career_advice"

\* one result filed under every category of its section whose key its title
\* holds: appended, or, for industry_trends, put in place of the object
PlaceOne(file, doc, r) ==
    [doc EXCEPT !.leaves =
        [k \in LeafKeys(file) |->
            IF k[1] = SectionOf(file, r) /\ k[2] \in doc.cats[k[1]] /\ k[2] \in r.matches
            THEN (IF file = "market_trends" THEN <<r>> ELSE Append(doc.leaves[k], r))
            ELSE doc.leaves[k]]]

RECURSIVE Place(_, _, _)
Place(file, doc, results) ==
    IF results = <<>> THEN doc
    ELSE Place(file, PlaceOne(file, doc, results[1]), Tail(results))

\* datetime.now(): knowledge_base.py does not import datetime
DatetimeNow(time) == Raises("NameError", "datetime")

\* save_data: the whole document is written
save_data(doc) == doc

\* mutant: the document is written back as its refreshed sections and the
\* timestamp only
Refresh_dropsOtherKeys(file, doc, hasKey, resp, time) ==
    IF FetchData(hasKey, resp).kind = "empty"
    THEN [doc |-> doc, raised |-> "none", saved |-> FALSE]
    ELSE [doc |-> [load_data(file, doc) EXCEPT
                      !.top = TargetSections(file) \cup {"last_updated"},
                      !.last_updated = time],
          raised |-> "none", saved |-> TRUE]

\* update_career_resources / update_market_trends / update_career_insights:
\* fetch; return if nothing came; load; file the results; stamp; save
Refresh(file, doc, hasKey, resp, time) ==
    LET data == FetchData(hasKey, resp)
        loaded == load_data(file, doc)
        valid == ValidResults(data.results)
        stamp == DatetimeNow(time)
    IN  IF data.kind = "empty"
        THEN [doc |-> doc, raised |-> "none", saved |-> FALSE]
        ELSE IF valid # <<>> /\ \E r \in SeqToSet(valid) : SectionOf(file, r) \notin loaded.top
        THEN [doc |-> doc, raised |-> "KeyError", saved |-> FALSE]
        ELSE IF stamp.exc # "none"
        THEN [doc |-> doc, raised |-> stamp.exc, saved |-> FALSE]
        ELSE [doc |-> save_data([Place(file, loaded, valid) EXCEPT
                                    !.top = loaded.top \cup {"last_updated"},
                                    !.last_updated = time]),
              raised |-> "none", saved |-> TRUE]

\* the responses to the three requests of one get_career_guidance call
GuidanceResponses ==
    {[kind |-> k, results |-> <<>>] : k \in {"fail", "no_results"}}
        \cup {[kind |-> "results",
               results |-> <<[hasTitle |-> TRUE, hasLink |-> TRUE, success |-> FALSE,
                              matches |-> {"data_science"}]>>]}

\* one refresh inside get_career_guidance, as the ghost records it: whether
\* its upstream request failed, what it raised, whether it changed its file
StepOf(file, doc, hasKey, resp, op) ==
    [file |-> file, failed |-> ~hasKey \/ resp.kind = "fail", raised |-> op.raised,
     changed |-> op.doc # doc]

\* the merged view: the four sections and the three timestamps
ViewOf(docs) ==
    [leaves |-> [f \in KbFiles |-> docs[f].leaves],
     last_updated |-> [f \in KbFiles |-> docs[f].last_updated]]

\* lines 284-302: the three loads and the dictionary literal; a key that a
\* loaded document lacks raises KeyError
MergedView(docs) ==
    LET loaded == [f \in KbFiles |-> load_data(f, docs[f])]
    IN  IF \E f \in KbFiles : ~((TargetSections(f) \cup {"last_updated"}) \subseteq loaded[f].top)
        THEN [raised |-> "KeyError", view |-> ViewOf([f \in KbFiles |-> Skeleton(f)])]
        ELSE [raised |-> "none", view |-> ViewOf(loaded)]

\* get_career_guidance: the three refreshes in order, the first raise ends
\* the call; then the merged view
get_career_guidance(docs, srp, news, resps, time) ==
    LET r1 == Refresh("career_resources", docs["career_resources"], srp, resps[1], time)
        s1 == StepOf("career_resources", docs["career_resources"], srp, resps[1], r1)
        d1 == [docs EXCEPT !["career_resources"] = r1.doc]
        r2 == Refresh("market_trends", d1["market_trends"], news, resps[2], time)
        s2 == StepOf("market_trends", d1["market_trends"], news, resps[2], r2)
        d2 == [d1 EXCEPT !["market_trends"] = r2.doc]
        r3 == Refresh("career_insights", d2["career_insights"], srp, resps[3], time)
        s3 == StepOf("career_insights", d2["career_insights"], srp, resps[3], r3)
        d3 == [d2 EXCEPT !["career_insights"] = r3.doc]
        merged == MergedView(d3)
        none == ViewOf([f \in KbFiles |-> Skeleton(f)])
    IN  IF r1.raised # "none"
        THEN [docs |-> d1, steps |-> <<s1>>, raised |-> r1.raised, view |-> none]
        ELSE IF r2.raised # "none"
        THEN [docs |-> d2, steps |-> <<s1, s2>>, raised |-> r2.raised, view |-> none]
        ELSE IF r3.raised # "none"
        THEN [docs |-> d3, steps |-> <<s1, s2, s3>>, raised |-> r3.raised, view |-> none]
        ELSE [docs |-> d3, steps |-> <<s1, s2, s3>>, raised |-> merged.raised,
              view |-> merged.view]

\* a refresh that has not started: its position, the response it got, its
\* in-memory copy of the document, and what it raised
RacerIdle(file) ==
    [pc |-> "start", resp |-> [kind |-> "fail", results |-> <<>>],
     local |-> EmptyDict(file), raised |-> "none", overlap |-> FALSE]

Racers == {1, 2}

RaceIdle == [p \in Racers |-> RacerIdle("career_resources")]

\* kbLast, before any refresh
KbIdle ==
    [op |-> "none", file |-> "-", resp |-> [kind |-> "fail", results |-> <<>>],
     hadKey |-> FALSE, wasJson |-> FALSE, raised |-> "none", saved |-> FALSE,
     keysKept |-> TRUE, changed |-> FALSE, stamped |-> FALSE, steps |-> <<>>,
     view |-> ViewOf([f \in KbFiles |-> Skeleton(f)])]

\* the knowledge base is not part of the behaviour
KbUnused ==
    /\ srp_api_key = FALSE
    /\ kb_news_api_key = FALSE
    /\ kbDocs = [f \in KbFiles |-> Skeleton(f)]
    /\ kbLast = KbIdle
    /\ racers = RaceIdle

---------------------------------------------------------------------------
(* The web-search client as a state machine *)

\* wsLast: the query of the last call, what the call met and left on disk,
\* and its outcome:
\*   preKind      the kind of cache file found for the query
\*   age          the age of that file's entry at the call, in hours
\*   retIsPre     the list returned is the results of the entry found
\*   fileChanged  the query's cache file differs after the call
\*   otherChanged another query's cache file differs after the call
\*   stored       the query's cache file holds the returned list, stamped now
\*   faults       the failures the call met
WsIdle ==
    [query |-> "none", preKind |-> "none", age |-> 0, retIsPre |-> FALSE,
     fileChanged |-> FALSE, otherChanged |-> FALSE, stored |-> FALSE,
     faults |-> {}, op |-> WsRaise(<<>>, <<>>)]

\* the failures a call met, given what it went through
WsFaults(preKind, op, sk, nk, respA, respB, w) ==
    (IF preKind = "corrupt" THEN {"cache_read"} ELSE {})
    \cup (IF "serp" \in SeqToSet(op.calls) /\ ~sk THEN {"serp_nokey"} ELSE {})
    \cup (IF "serp" \in SeqToSet(op.calls) /\ sk /\ respA.kind = "error"
          THEN {"serp_error"} ELSE {})
    \cup (IF "news" \in SeqToSet(op.calls) /\ ~nk THEN {"news_nokey"} ELSE {})
    \cup (IF "news" \in SeqToSet(op.calls) /\ nk /\ respB.kind = "error"
          THEN {"news_error"} ELSE {})
    \cup (IF op.saved /\ w # "ok" THEN {"cache_write"} ELSE {})

\* the web-search client is not part of the behaviour
WsUnused ==
    /\ serp_api_key = FALSE
    /\ news_api_key = FALSE
    /\ wsCache = <<>>
    /\ wsLast = WsIdle

WsInit ==
    /\ now = 0
    /\ serp_api_key \in BOOLEAN
    /\ news_api_key \in BOOLEAN
    /\ wsCache = [q \in Queries |-> NoFile]
    /\ wsLast = WsIdle
    /\ ToolsUnused
    /\ OrchUnused
    /\ RegUnused
    /\ PureUnused
    /\ KbUnused

\* one call of WebSearchTool._execute(query)
WsSearch ==
    \E query \in Queries, w \in WriteOutcomes :
    \E respA \in SerpResponses(query), respB \in NewsResponses(query) :
    \E op \in {WebSearchTool_execute(wsCache, now, serp_api_key, news_api_key,
                                      query, respA, respB, w)} :
            /\ wsCache' = op.cache
            /\ wsLast' =
                 [query |-> query,
                  preKind |-> wsCache[query].kind,
                  age |-> IF wsCache[query].kind = "entry"
                          THEN now - wsCache[query].timestamp ELSE 0,
                  retIsPre |-> wsCache[query].kind = "entry"
                               /\ op.ret = wsCache[query].results,
                  fileChanged |-> op.cache[query] # wsCache[query],
                  otherChanged |-> \E o \in Queries \ {query} : op.cache[o] # wsCache[o],
                  stored |-> op.cache[query] = Entry(now, op.ret),
                  faults |-> WsFaults(wsCache[query].kind, op, serp_api_key,
                                      news_api_key, respA, respB, w),
                  op |-> [op EXCEPT !.cache = <<>>]]
            /\ UNCHANGED <<now, serp_api_key, news_api_key, toolVars, orchVars, regVars, pureVars, kbVars>>

\* time passes
WsTick ==
    /\ now + WsTickStep <= MaxTime
    /\ now' = now + WsTickStep
    /\ UNCHANGED <<wsVars, toolVars, orchVars, regVars, pureVars, kbVars>>

\* the environment damages a cache file (it no longer parses)
WsCacheDamaged ==
    \E query \in Queries :
        /\ wsCache[query].kind = "entry"
        /\ wsCache' = [wsCache EXCEPT ![query] = Corrupt]
        /\ UNCHANGED <<now, serp_api_key, news_api_key, wsLast, toolVars, orchVars, regVars, pureVars, kbVars>>

WsNext == WsSearch \/ WsTick \/ WsCacheDamaged

SpecWS == WsInit /\ [][WsNext]_vars

---------------------------------------------------------------------------
(* A domain tool as a state machine *)

ToolInit ==
    /\ now = 0
    /\ tool \in Tools
    /\ toolCache = [k \in Keys |-> ToolNoFile]
    /\ toolLast = ToolIdle
    /\ WsUnused
    /\ OrchUnused
    /\ RegUnused
    /\ PureUnused
    /\ KbUnused

\* one call of the tool's _execute(query)
ToolExecute ==
    \E intent \in Intents, found \in BOOLEAN :
    \E op \in {Tool_execute(tool, toolCache, now, intent, found)} :
        /\ toolCache' = op.cache
        /\ toolLast' =
             [intent |-> intent,
              preKind |-> toolCache[intent.key].kind,
              age |-> IF toolCache[intent.key].kind = "entry"
                      THEN now - toolCache[intent.key].timestamp ELSE 0,
              payloadIsPre |-> op.payload = toolCache[intent.key],
              fileChanged |-> op.cache[intent.key] # toolCache[intent.key],
              stored |-> op.cache[intent.key].kind = "entry"
                         /\ op.cache[intent.key].timestamp = now
                         /\ op.cache[intent.key] = op.payload,
              found |-> found,
              op |-> [op EXCEPT !.cache = <<>>]]
        /\ UNCHANGED <<now, tool, wsVars, orchVars, regVars, pureVars, kbVars>>

ToolTick ==
    /\ now + ToolTickStep <= MaxTime
    /\ now' = now + ToolTickStep
    /\ UNCHANGED <<wsVars, toolVars, orchVars, regVars, pureVars, kbVars>>

\* the environment damages a cache file of the tool
ToolCacheDamaged ==
    \E key \in Keys :
        /\ toolCache[key].kind = "entry"
        /\ toolCache' = [toolCache EXCEPT ![key] = ToolCorrupt]
        /\ UNCHANGED <<now, tool, toolLast, wsVars, orchVars, regVars, pureVars, kbVars>>

ToolNext == ToolExecute \/ ToolTick \/ ToolCacheDamaged

SpecTool == ToolInit /\ [][ToolNext]_vars

---------------------------------------------------------------------------
(* The orchestrator as a state machine *)

\* Orchestrator(tool_registry, knowledge_base): either may be None
OrchInit ==
    /\ now = 0
    /\ knowledge_base \in BOOLEAN
    /\ tool_registry \in BOOLEAN
    /\ conversation_history = <<>>
    /\ callLog = <<>>
    /\ orchLast = OrchIdle
    /\ WsUnused
    /\ ToolsUnused
    /\ RegUnused
    /\ PureUnused
    /\ KbUnused

\* one call of process_query(query)
ProcessQuery ==
    /\ Len(callLog) < MaxCalls
    /\ \E query \in QueryInputs, kbOutcome \in KbOutcomes, score \in ScoreVectors :
       \E outcome \in [SeqToSet(_select_tools(RegisteredTools, score)) -> ExecOutcomes] :
       \E op \in {process_query(conversation_history, query, knowledge_base,
                                tool_registry, kbOutcome, score, outcome)} :
           /\ conversation_history' = op.history
           /\ callLog' = Append(callLog, [query |-> query, result |-> op.result])
           /\ orchLast' = [query |-> query, result |-> op.result,
                           kbCalled |-> op.kbCalled, role |-> op.role,
                           executed |-> op.executed,
                           faults |-> [kb |-> op.kbCalled /\ kbOutcome = "raises",
                                       tool |-> \E t \in SeqToSet(op.executed) :
                                                   outcome[t] = "raises"],
                           kbOutcome |-> IF op.kbCalled THEN kbOutcome ELSE "-",
                           score |-> IF op.kbCalled THEN score
                                     ELSE [t \in SeqToSet(RegisteredTools) |-> 0],
                           raisers |-> {t \in SeqToSet(op.executed) :
                                           outcome[t] = "raises"},
                           called |-> TRUE]
           /\ UNCHANGED <<now, knowledge_base, tool_registry, wsVars, toolVars, regVars, pureVars, kbVars>>

OrchNext == ProcessQuery

SpecOrch == OrchInit /\ [][OrchNext]_vars

---------------------------------------------------------------------------
(* The tool registry as a state machine *)

RegInit ==
    /\ now = 0
    /\ registry_instance = 0
    /\ registry_objects = <<>>
    /\ bindings = [c \in ImportableDecorated |-> "class"]
    /\ registered = [n \in ToolNames |-> NoTool]
    /\ regLast = RegIdle
    /\ WsUnused
    /\ ToolsUnused
    /\ OrchUnused
    /\ PureUnused
    /\ KbUnused

\* ToolRegistry() or get_registry()
GetRegistry ==
    \E careerPathPresent \in BOOLEAN :
    \E op \in {ToolRegistry(registry_instance, registry_objects, bindings,
                            careerPathPresent)} :
        /\ registry_instance' = op.instance
        /\ registry_objects' = op.objects
        /\ registered' = IF op.initialised
                         THEN [n \in ToolNames |-> get_tool(op.objects[op.instance], n)]
                         ELSE registered
        /\ regLast' =
             [op |-> "construct", class |-> "-", tool |-> NoTool,
              existed |-> registry_instance # 0,
              object |-> op.instance,
              toolsKept |-> CurrentTools(op.instance, op.objects)
                              = CurrentTools(registry_instance, registry_objects),
              namesKept |-> NamesOf(CurrentTools(registry_instance, registry_objects))
                              \subseteq NamesOf(CurrentTools(op.instance, op.objects)),
              raised |-> FALSE]
        /\ UNCHANGED <<now, bindings, wsVars, toolVars, orchVars, pureVars, kbVars>>

\* get_registry().register(inst)
Register ==
    /\ registry_instance # 0
    /\ \E inst \in RegInputs :
       \E after \in {register(registry_objects[registry_instance], inst)} :
           /\ registry_objects' = [registry_objects EXCEPT ![registry_instance] = after]
           /\ registered' = IF inst.isTool
                            THEN [registered EXCEPT ![inst.name] = inst]
                            ELSE registered
           /\ regLast' =
                [op |-> "register", class |-> inst.class, tool |-> inst,
                 existed |-> TRUE, object |-> registry_instance,
                 toolsKept |-> after = registry_objects[registry_instance],
                 namesKept |-> NamesOf(registry_objects[registry_instance])
                                 \subseteq NamesOf(after),
                 raised |-> FALSE]
           /\ UNCHANGED <<now, registry_instance, bindings, wsVars, toolVars, orchVars, pureVars, kbVars>>

\* the module of a decorated class is imported: `@register_tool class C`
Decorate ==
    \E c \in ImportableDecorated :
        /\ bindings[c] = "class"
        /\ \E op \in {register_tool(registry_instance, registry_objects, c)} :
               /\ bindings' = [bindings EXCEPT ![c] = op.value]
               /\ registry_instance' = op.instance
               /\ registry_objects' = op.objects
               /\ regLast' =
                    [op |-> "decorate", class |-> c, tool |-> NoTool,
                     existed |-> registry_instance # 0, object |-> op.instance,
                     toolsKept |-> CurrentTools(op.instance, op.objects)
                                     = CurrentTools(registry_instance, registry_objects),
                     namesKept |-> NamesOf(CurrentTools(registry_instance, registry_objects))
                                     \subseteq NamesOf(CurrentTools(op.instance, op.objects)),
                     raised |-> FALSE]
        /\ UNCHANGED <<now, registered, wsVars, toolVars, orchVars, pureVars, kbVars>>

\* C(): the name of a tool class is called
Instantiate ==
    \E c \in ImportableDecorated \cup {"WebScraperTool"} :
        /\ regLast' =
             [op |-> "instantiate", class |-> c, tool |-> NoTool,
              existed |-> registry_instance # 0, object |-> registry_instance,
              toolsKept |-> TRUE, namesKept |-> TRUE,
              raised |-> ConstructorRaises(bindings, c)]
        /\ UNCHANGED <<now, registry_instance, registry_objects, bindings, registered,
                       wsVars, toolVars, orchVars, pureVars, kbVars>>

RegNext == GetRegistry \/ Register \/ Decorate \/ Instantiate

SpecReg == RegInit /\ [][RegNext]_vars

---------------------------------------------------------------------------
(* _select_tools and _score_tool, applied to the inputs of the model *)

SelectInit ==
    /\ now = 0
    /\ selLast = SelIdle
    /\ scoreLast = ScoreIdle
    /\ jobsLast = JobsIdle
    /\ cleanLast = CleanIdle
    /\ WsUnused
    /\ ToolsUnused
    /\ OrchUnused
    /\ RegUnused
    /\ KbUnused

\* _select_tools over the pool, with the scores _score_tool gave
SelectTools ==
    \E score \in PoolScores :
        /\ ~selLast.called
        /\ selLast' = [called |-> TRUE, score |-> score,
                       selected |-> _select_tools(SelectPool, score)]
        /\ UNCHANGED <<now, scoreLast, jobsLast, cleanLast, wsVars, toolVars, orchVars, regVars, kbVars>>

SelectNext == SelectTools

SpecSelect == SelectInit /\ [][SelectNext]_vars

ScoreInit == SelectInit

\* _score_tool(tool, query, kb_results)
ScoreTool ==
    \E query \in WordSets, description \in WordSets, kb \in KbViews :
        /\ ~scoreLast.called
        /\ scoreLast' = [called |-> TRUE, query |-> query, description |-> description,
                         kb |-> kb, score |-> _score_tool(query, description, kb)]
        /\ UNCHANGED <<now, selLast, jobsLast, cleanLast, wsVars, toolVars, orchVars, regVars, kbVars>>

ScoreNext == ScoreTool

SpecScore == ScoreInit /\ [][ScoreNext]_vars

---------------------------------------------------------------------------
(* _analyze_women_friendly_jobs and _clean_text, applied to the inputs of  *)
(* the model                                                               *)

JobsInit == SelectInit

AnalyzeJobs ==
    \E jobs \in JobLists :
        /\ ~jobsLast.called
        /\ jobsLast' = [called |-> TRUE, jobs |-> jobs,
                        result |-> _analyze_women_friendly_jobs(jobs)]
        /\ UNCHANGED <<now, selLast, scoreLast, cleanLast, wsVars, toolVars, orchVars,
                       regVars, kbVars>>

JobsNext == AnalyzeJobs

SpecJobs == JobsInit /\ [][JobsNext]_vars

CleanInit == SelectInit

CleanText ==
    \E text \in Texts :
        /\ ~cleanLast.called
        /\ cleanLast' = [called |-> TRUE, text |-> text, out |-> _clean_text(text)]
        /\ UNCHANGED <<now, selLast, scoreLast, jobsLast, wsVars, toolVars, orchVars,
                       regVars, kbVars>>

CleanNext == CleanText

SpecClean == CleanInit /\ [][CleanNext]_vars

---------------------------------------------------------------------------
(* The knowledge base as a state machine *)

\* KnowledgeBase(): the credentials are read and the missing documents made
KbInit ==
    /\ now = 0
    /\ srp_api_key \in BOOLEAN
    /\ kb_news_api_key \in BOOLEAN
    /\ kbDocs = [f \in KbFiles |-> Skeleton(f)]
    /\ kbLast = KbIdle
    /\ racers = RaceIdle
    /\ WsUnused
    /\ ToolsUnused
    /\ OrchUnused
    /\ RegUnused
    /\ PureUnused

\* a refresh of one document, with the credential it uses
RefreshStep(name, file, hasKey) ==
    \E resp \in UpstreamResponses :
    \E op \in {Refresh(file, kbDocs[file], hasKey, resp, now)} :
        /\ kbDocs' = [kbDocs EXCEPT ![file] = op.doc]
        /\ kbLast' =
             [op |-> name, file |-> file, resp |-> resp, hadKey |-> hasKey,
              wasJson |-> kbDocs[file].state = "json",
              raised |-> op.raised, saved |-> op.saved,
              keysKept |-> /\ op.doc.state = kbDocs[file].state
                           /\ op.doc.top = kbDocs[file].top
                           /\ op.doc.cats = kbDocs[file].cats,
              changed |-> op.doc # kbDocs[file],
              stamped |-> op.saved /\ op.doc.last_updated = now,
              steps |-> <<StepOf(file, kbDocs[file], hasKey, resp, op)>>,
              view |-> KbIdle.view]
        /\ UNCHANGED <<now, srp_api_key, kb_news_api_key, racers, wsVars, toolVars, orchVars,
                       regVars, pureVars>>

update_career_resources == RefreshStep("update_career_resources", "career_resources", srp_api_key)

update_market_trends == RefreshStep("update_market_trends", "market_trends", kb_news_api_key)

update_career_insights == RefreshStep("update_career_insights", "career_insights", srp_api_key)

GetCareerGuidance ==
    \E resps \in [1..3 -> GuidanceResponses] :
    \E op \in {get_career_guidance(kbDocs, srp_api_key, kb_news_api_key, resps, now)} :
        /\ kbDocs' = op.docs
        /\ kbLast' =
             [op |-> "get_career_guidance", file |-> "-", resp |-> KbIdle.resp,
              hadKey |-> srp_api_key, wasJson |-> \A f \in KbFiles : kbDocs[f].state = "json",
              raised |-> op.raised, saved |-> FALSE,
              keysKept |-> \A f \in KbFiles :
                              /\ op.docs[f].state = kbDocs[f].state
                              /\ op.docs[f].top = kbDocs[f].top
                              /\ op.docs[f].cats = kbDocs[f].cats,
              changed |-> op.docs # kbDocs, stamped |-> FALSE, steps |-> op.steps,
              view |-> op.view]
        /\ UNCHANGED <<now, srp_api_key, kb_news_api_key, racers, wsVars, toolVars, orchVars,
                       regVars, pureVars>>

\* the environment leaves a document unreadable
KbDocDamaged ==
    \E f \in KbFiles :
        /\ kbDocs[f].state = "json"
        /\ kbDocs' = [kbDocs EXCEPT ![f].state = "unreadable"]
        /\ UNCHANGED <<now, srp_api_key, kb_news_api_key, kbLast, racers, wsVars, toolVars,
                       orchVars, regVars, pureVars>>

KbTick ==
    /\ now + WsTickStep <= MaxTime
    /\ now' = now + WsTickStep
    /\ UNCHANGED <<wsVars, toolVars, orchVars, regVars, pureVars, kbVars>>

KbNext ==
    \/ update_career_resources
    \/ update_market_trends
    \/ update_career_insights
    \/ GetCareerGuidance
    \/ KbDocDamaged
    \/ KbTick

SpecKB == KbInit /\ [][KbNext]_vars

---------------------------------------------------------------------------
(* The orchestrator over the knowledge base: process_query with            *)
(* self.knowledge_base a KnowledgeBase                                      *)

\* _score_tool for the query: no word of "hello there" is in a tool
\* description, and the documents hold no text
QueryScores(query) ==
    IF query.str.body = "hello there"
    THEN {[t \in SeqToSet(RegisteredTools) |-> 0]}
    ELSE ScoreVectors

AppInit ==
    /\ now = 0
    /\ knowledge_base \in BOOLEAN
    /\ tool_registry \in BOOLEAN
    /\ conversation_history = <<>>
    /\ callLog = <<>>
    /\ orchLast = OrchIdle
    /\ srp_api_key \in BOOLEAN
    /\ kb_news_api_key \in BOOLEAN
    /\ kbDocs = [f \in KbFiles |-> Skeleton(f)]
    /\ kbLast = KbIdle
    /\ racers = RaceIdle
    /\ WsUnused
    /\ ToolsUnused
    /\ RegUnused
    /\ PureUnused

\* one call of process_query(query); get_career_guidance runs on the
\* documents when the call reaches it
AppProcessQuery ==
    /\ Len(callLog) < MaxCalls
    /\ \E guidance \in {get_career_guidance(kbDocs, srp_api_key, kb_news_api_key, resps, now) :
                           resps \in [1..3 -> GuidanceResponses]} :
       \E query \in QueryInputs :
       \E score \in QueryScores(query) :
       \E outcome \in [SeqToSet(_select_tools(RegisteredTools, score)) -> ExecOutcomes] :
       \E kbOutcome \in {IF guidance.raised # "none" THEN "raises" ELSE "view"} :
       \E op \in {process_query(conversation_history, query, knowledge_base,
                                tool_registry, kbOutcome, score, outcome)} :
           /\ conversation_history' = op.history
           /\ callLog' = Append(callLog, [query |-> query, result |-> op.result])
           /\ kbDocs' = IF op.kbCalled THEN guidance.docs ELSE kbDocs
           /\ orchLast' = [query |-> query, result |-> op.result,
                           kbCalled |-> op.kbCalled, role |-> op.role,
                           executed |-> op.executed,
                           faults |-> [kb |-> op.kbCalled /\ kbOutcome = "raises",
                                       tool |-> \E t \in SeqToSet(op.executed) :
                                                   outcome[t] = "raises"],
                           kbOutcome |-> IF op.kbCalled THEN kbOutcome ELSE "-",
                           score |-> IF op.kbCalled THEN score
                                     ELSE [t \in SeqToSet(RegisteredTools) |-> 0],
                           raisers |-> {t \in SeqToSet(op.executed) :
                                           outcome[t] = "raises"},
                           called |-> TRUE]
           /\ UNCHANGED <<now, knowledge_base, tool_registry, srp_api_key, kb_news_api_key,
                          kbLast, racers, wsVars, toolVars, regVars, pureVars>>

AppNext == AppProcessQuery

SpecApp == AppInit /\ [][AppNext]_vars

---------------------------------------------------------------------------
(* Two concurrent calls of update_career_resources on one KnowledgeBase:   *)
(* each is a fetch, a load, and the lines from the filing of the results   *)
(* to save_data; nothing orders the steps of one against the other         *)

RaceInit ==
    /\ now = 0
    /\ srp_api_key \in BOOLEAN
    /\ kb_news_api_key = FALSE
    /\ kbDocs = [f \in KbFiles |-> Skeleton(f)]
    /\ kbLast = KbIdle
    /\ racers = RaceIdle
    /\ WsUnused
    /\ ToolsUnused
    /\ OrchUnused
    /\ RegUnused
    /\ PureUnused

\* lines 177-181: the request, and the return when nothing came
RaceFetch(p) ==
    /\ racers[p].pc = "start"
    /\ \E resp \in UpstreamResponses :
       \E data \in {FetchData(srp_api_key, resp)} :
           racers' = [racers EXCEPT ![p].resp = data,
                                    ![p].pc = IF data.kind = "empty" THEN "returned"
                                              ELSE "fetched"]
    /\ UNCHANGED <<now, srp_api_key, kb_news_api_key, kbDocs, kbLast, wsVars, toolVars,
                   orchVars, regVars, pureVars>>

\* line 183: the document is read into memory
RaceLoad(p) ==
    /\ racers[p].pc = "fetched"
    /\ racers' = [racers EXCEPT
                     ![p].local = load_data("career_resources", kbDocs["career_resources"]),
                     ![p].overlap = \E q \in Racers \ {p} : racers[q].pc = "loaded",
                     ![p].pc = "loaded"]
    /\ UNCHANGED <<now, srp_api_key, kb_news_api_key, kbDocs, kbLast, wsVars, toolVars,
                   orchVars, regVars, pureVars>>

\* lines 186-205: the results are filed in the copy, the copy is stamped and
\* written over the file
RaceModify(p) ==
    /\ racers[p].pc = "loaded"
    /\ LET valid == ValidResults(racers[p].resp.results)
           stamp == DatetimeNow(now)
       IN  IF valid # <<>> /\ "learning_resources" \notin racers[p].local.top
           THEN /\ racers' = [racers EXCEPT ![p].pc = "raised", ![p].raised = "KeyError"]
                /\ UNCHANGED kbDocs
           ELSE IF stamp.exc # "none"
           THEN /\ racers' = [racers EXCEPT
                                 ![p].local = Place("career_resources", racers[p].local, valid),
                                 ![p].pc = "raised", ![p].raised = stamp.exc]
                /\ UNCHANGED kbDocs
           ELSE /\ racers' = [racers EXCEPT
                                 ![p].local = Place("career_resources", racers[p].local, valid),
                                 ![p].pc = "saved"]
                /\ kbDocs' = [kbDocs EXCEPT !["career_resources"] =
                                 save_data([Place("career_resources", racers[p].local, valid)
                                               EXCEPT !.top = @ \cup {"last_updated"},
                                                      !.last_updated = now])]
    /\ UNCHANGED <<now, srp_api_key, kb_news_api_key, kbLast, wsVars, toolVars,
                   orchVars, regVars, pureVars>>

RaceNext == \E p \in Racers : RaceFetch(p) \/ RaceLoad(p) \/ RaceModify(p)

SpecRace == RaceInit /\ [][RaceNext]_vars

---------------------------------------------------------------------------
(* Properties of the orchestrator *)

ResponseKinds ==
    {"couldnt_process", "unexpected_error", "response_error", "generate_error",
     "no_info", "assembled"}

\* C1: a call of process_query with a string returns a string and lets no
\* exception escape, whatever the knowledge base and the selected tools did
C1_ProcessQueryReturnsString ==
    (orchLast.called /\ orchLast.query.type = "str")
        => /\ orchLast.result.exc = "none"
           /\ orchLast.result.val.kind \in ResponseKinds

\* a string query was answered although the knowledge base raised and a
\* selected tool raised
C1_Witness ==
    /\ orchLast.called
    /\ orchLast.query.type = "str"
    /\ orchLast.faults.kb
    /\ orchLast.faults.tool
    /\ orchLast.result.exc = "none"
    /\ orchLast.result.val.kind \in {"assembled", "no_info"}

\* the call is one that validation rejects
Rejected(query) ==
    \/ ~Truthy(query)
    \/ query.type # "str"
    \/ ~knowledge_base
    \/ ~tool_registry

\* C2: a call with an empty string or a non-string, or with the knowledge
\* base or the tool registry unset, returns "I'm sorry, I couldn't process
\* your query: ..." and calls neither the knowledge base nor any tool
C2_RejectedCallsNothing ==
    (orchLast.called /\ Rejected(orchLast.query))
        => /\ orchLast.result.exc = "none"
           /\ orchLast.result.val.kind = "couldnt_process"
           /\ ~orchLast.kbCalled
           /\ orchLast.executed = <<>>

\* a non-empty string was rejected because the tool registry is unset
C2_Witness ==
    /\ orchLast.called
    /\ orchLast.query = PyStr("hello there")
    /\ knowledge_base
    /\ ~tool_registry
    /\ orchLast.result = Returns(CouldntProcess("Tool registry not initialized"))
    /\ ~orchLast.kbCalled

\* the pairs of the calls of a log that satisfy accepted, in call order
RECURSIVE PairsOf(_, _)
PairsOf(log, accepted) ==
    IF log = <<>> THEN <<>>
    ELSE PairsOf(SubSeq(log, 1, Len(log) - 1), accepted)
         \o (IF log[Len(log)].query \in accepted
             THEN << [role |-> "user", content |-> log[Len(log)].query.str],
                     [role |-> "assistant", content |-> log[Len(log)].result.val] >>
             ELSE <<>>)

NonEmptyStrings == {q \in QueryInputs : q.type = "str" /\ q.str.body # ""}

\* C3 as stated: conversation_history is the concatenation, in call order,
\* of one (user, assistant) pair per call whose query is a non-empty string
C3_HistoryIsPairsOfNonEmptyStrings ==
    conversation_history = PairsOf(callLog, NonEmptyStrings)

\* C3, amended: conversation_history is the concatenation, in call order, of
\* one (user: the query, assistant: the string returned) pair per call that
\* passed validation: a non-empty string, made while the knowledge base and
\* the tool registry are set
C3_HistoryIsPairsOfValidatedCalls ==
    conversation_history =
        PairsOf(callLog, IF knowledge_base /\ tool_registry THEN NonEmptyStrings ELSE {})

\* two different queries were accepted, the first answered from the
\* knowledge base and the second not
C3_Witness ==
    /\ Len(callLog) = 2
    /\ Len(conversation_history) = 4
    /\ callLog[1].query # callLog[2].query
    /\ callLog[1].result.val.kb
    /\ callLog[2].result.val.kind = "no_info"

\* the position of a tool in the registry
RegistryIndex(t) == CHOOSE i \in 1..Len(RegisteredTools) : RegisteredTools[i] = t

\* the registered tools whose score reaches the threshold
AboveThreshold(score) ==
    {t \in SeqToSet(RegisteredTools) : score[t] >= MIN_SIMILARITY_SCORE}

\* C17 as stated: the selected tools are executed in registry-insertion
\* order restricted to the selected subset
C17_ExecutedInRegistryOrder ==
    orchLast.called =>
        orchLast.executed = SelectSeq2(RegisteredTools, SeqToSet(orchLast.executed))

\* C17, amended: the selected tools are executed in the order of the ranked
\* selection: by descending score, tools of equal score in registry-insertion
\* order
C17_ExecutedInRankedOrder ==
    orchLast.called =>
        \A i \in 1..Len(orchLast.executed), j \in 1..Len(orchLast.executed) :
            i < j =>
                \/ orchLast.score[orchLast.executed[i]] > orchLast.score[orchLast.executed[j]]
                \/ /\ orchLast.score[orchLast.executed[i]] = orchLast.score[orchLast.executed[j]]
                   /\ RegistryIndex(orchLast.executed[i]) < RegistryIndex(orchLast.executed[j])

\* web_search, registered second, outscored job_search and ran first
C17_Witness ==
    /\ orchLast.called
    /\ orchLast.executed = <<"web_search", "job_search">>
    /\ orchLast.score["web_search"] > orchLast.score["job_search"]

\* C18: when a selected tool's execute raises, every selected tool is still
\* executed, and the tools listed under "Additional Information" are the
\* executed tools that did not raise, in execution order
C18_RaisingToolAloneDropped ==
    (orchLast.called /\ orchLast.kbCalled) =>
        /\ SeqToSet(orchLast.executed) = AboveThreshold(orchLast.score)
        /\ Len(orchLast.executed) = Cardinality(AboveThreshold(orchLast.score))
        /\ orchLast.result.val.tools =
               SelectSeq2(orchLast.executed, SeqToSet(orchLast.executed) \ orchLast.raisers)
        /\ (orchLast.result.val.tools # <<>>) => orchLast.result.val.kind = "assembled"

\* the first of two selected tools raised; the second was executed and is
\* the only one listed
C18_Witness ==
    /\ orchLast.called
    /\ orchLast.executed = <<"web_search", "job_search">>
    /\ orchLast.raisers = {"web_search"}
    /\ orchLast.result.val.kind = "assembled"
    /\ orchLast.result.val.tools = <<"job_search">>

\* C19: when get_career_guidance raises or returns no dictionary, the call
\* goes on with an empty mapping: the tools are selected and executed, the
\* response has no "Based on my research" section, and the assistant turn
\* is appended to the history
C19_KbFailureGivesEmptyMapping ==
    (orchLast.called /\ orchLast.kbCalled /\ orchLast.kbOutcome \in {"raises", "not_dict"}) =>
        /\ orchLast.result.exc = "none"
        /\ orchLast.result.val.kind \in {"assembled", "no_info"}
        /\ ~orchLast.result.val.kb
        /\ SeqToSet(orchLast.executed) = AboveThreshold(orchLast.score)
        /\ orchLast.result.val.tools =
               SelectSeq2(orchLast.executed, SeqToSet(orchLast.executed) \ orchLast.raisers)
        /\ Len(conversation_history) >= 2
        /\ conversation_history[Len(conversation_history)] =
               [role |-> "assistant", content |-> orchLast.result.val]
        /\ conversation_history[Len(conversation_history) - 1] =
               [role |-> "user", content |-> orchLast.query.str]

\* get_career_guidance returned no dictionary; a tool still ran and its
\* result is the whole response
C19_Witness ==
    /\ orchLast.called
    /\ orchLast.kbOutcome = "not_dict"
    /\ orchLast.executed # <<>>
    /\ orchLast.result.val.kind = "assembled"
    /\ orchLast.result.val.tools # <<>>
    /\ ~orchLast.result.val.kb

---------------------------------------------------------------------------
(* Properties of the web-search client *)

WsCalled == wsLast.query # "none"

NoDuplicates(s) == \A i, j \in 1..Len(s) : s[i] = s[j] => i = j

\* the index of the first occurrence of x in s
FirstIndex(s, x) == CHOOSE i \in 1..Len(s) : s[i] = x /\ \A j \in 1..(i - 1) : s[j] # x

\* r lists distinct elements of s in the order in which s first shows them
InFirstSeenOrder(r, s) ==
    /\ NoDuplicates(r)
    /\ SeqToSet(r) \subseteq SeqToSet(s)
    /\ \A i, j \in 1..Len(r) : i < j => FirstIndex(s, r[i]) < FirstIndex(s, r[j])

\* C4: a cache entry of the query less than 24 hours old is returned as it
\* is, with no provider queried; an entry 24 hours old or older, or an
\* unreadable file, has the providers queried again.
C4_FreshEntryReturnedStaleRefetched ==
    WsCalled =>
        /\ (wsLast.preKind = "entry" /\ wsLast.age < 24) =>
               /\ ~wsLast.op.raised
               /\ wsLast.retIsPre
               /\ wsLast.op.calls = <<>>
        /\ (wsLast.preKind = "corrupt" \/ (wsLast.preKind = "entry" /\ wsLast.age >= 24)) =>
               /\ wsLast.op.calls # <<>>
               /\ wsLast.op.calls[1] = "serp"

\* a call that found an entry 12 hours old and returned it
C4_Witness ==
    /\ WsCalled
    /\ wsLast.preKind = "entry"
    /\ wsLast.age = 12
    /\ wsLast.op.hit
    /\ wsLast.retIsPre

\* C5: on a cache miss provider A is queried first, provider B is queried
\* iff A contributed fewer than 5 results, and B's results follow A's in the
\* list returned, each provider's order kept.
C5_NewsOnlyWhenSerpShort ==
    (WsCalled /\ ~wsLast.op.hit /\ ~wsLast.op.raised) =>
        /\ wsLast.op.calls \in {<<"serp">>, <<"serp", "news">>}
        /\ ("news" \in SeqToSet(wsLast.op.calls)) <=> (Len(wsLast.op.serp) < 5)
        /\ wsLast.op.ret # <<Sentinel>> =>
               /\ InFirstSeenOrder(wsLast.op.ret, wsLast.op.serp \o wsLast.op.news)
               /\ \A i, j \in 1..Len(wsLast.op.ret) :
                      ( /\ wsLast.op.ret[i] \in SeqToSet(wsLast.op.serp)
                        /\ wsLast.op.ret[j] \notin SeqToSet(wsLast.op.serp) ) => i < j

\* a miss where provider A gave 4 results and provider B added to them
C5_Witness ==
    /\ WsCalled
    /\ ~wsLast.op.hit
    /\ Len(wsLast.op.serp) = 4
    /\ wsLast.op.calls = <<"serp", "news">>
    /\ wsLast.op.news # <<>>
    /\ SeqToSet(wsLast.op.ret) \ SeqToSet(wsLast.op.serp) # {}

\* C6: the list returned has at most 5 entries and no duplicate, and after a
\* miss it is the distinct provider results in first-seen order: the first 5
\* of them, none left out while a later one is listed.
C6_AtMostFiveDistinctFirstSeen ==
    (WsCalled /\ ~wsLast.op.raised) =>
        /\ Len(wsLast.op.ret) <= 5
        /\ NoDuplicates(wsLast.op.ret)
        /\ (~wsLast.op.hit /\ wsLast.op.ret # <<Sentinel>>) =>
               LET all == wsLast.op.serp \o wsLast.op.news
               IN  /\ InFirstSeenOrder(wsLast.op.ret, all)
                   /\ Len(wsLast.op.ret) = Min(5, Cardinality(SeqToSet(all)))
                   /\ \A x \in SeqToSet(all) \ SeqToSet(wsLast.op.ret) :
                          \A y \in SeqToSet(wsLast.op.ret) :
                              FirstIndex(all, y) < FirstIndex(all, x)

\* a miss whose providers gave a duplicate and more than 5 distinct results
C6_Witness ==
    /\ WsCalled
    /\ ~wsLast.op.hit
    /\ wsLast.op.serp = <<1, 2, 3, 4>>
    /\ wsLast.op.news = <<4, 5, 6, 7>>
    /\ wsLast.op.ret = <<1, 2, 3, 4, 5>>

\* the query's cache file holds an entry that is fresh now
WsFreshEntry(query) ==
    /\ wsCache[query].kind = "entry"
    /\ now - wsCache[query].timestamp < 24

\* C7: when both providers contribute nothing the search returns
\* ["No results found."] and leaves the cache as it was, so that the next
\* search of the query asks the providers again; the cache is written iff the
\* final list is non-empty, and the sentinel is never stored.
C7_EmptyResultNotCached ==
    /\ \A q \in Queries : Sentinel \notin SeqToSet(wsCache[q].results)
    /\ (WsCalled /\ ~wsLast.op.raised /\ ~wsLast.op.hit) =>
           /\ (wsLast.op.serp = <<>> /\ wsLast.op.news = <<>>) <=>
                  wsLast.op.ret = <<Sentinel>>
           /\ wsLast.op.saved <=> wsLast.op.ret # <<Sentinel>>
           /\ (wsLast.op.saved /\ "cache_write" \notin wsLast.faults) => wsLast.stored
           /\ ~wsLast.op.saved => (~wsLast.fileChanged /\ ~wsLast.stored)
           /\ wsLast.op.ret = <<Sentinel>> => ~WsFreshEntry(wsLast.query)

\* a search that found nothing, with both providers asked
C7_Witness ==
    /\ WsCalled
    /\ wsLast.op.ret = <<Sentinel>>
    /\ wsLast.op.calls = <<"serp", "news">>
    /\ ~wsLast.fileChanged

\* C8: the search never raises; a provider failure, a missing credential and
\* a failed read or write of the cache file each give an empty contribution,
\* and a list is returned.
C8_SearchNeverRaises ==
    WsCalled =>
        /\ ~wsLast.op.raised
        /\ wsLast.op.ret # <<>>
        /\ (wsLast.faults \cap {"serp_error", "serp_nokey"} # {}) => wsLast.op.serp = <<>>
        /\ (wsLast.faults \cap {"news_error", "news_nokey"} # {}) => wsLast.op.news = <<>>
        /\ ("cache_read" \in wsLast.faults) => ~wsLast.op.hit
        /\ ("cache_write" \in wsLast.faults) => ~wsLast.stored

\* a search that met an unreadable cache file, a failing provider and a
\* failing write, and still returned the other provider's results
C8_Witness ==
    /\ WsCalled
    /\ {"cache_read", "serp_error", "cache_write"} \subseteq wsLast.faults
    /\ ~wsLast.op.raised
    /\ wsLast.op.ret = wsLast.op.news
    /\ wsLast.op.news # <<>>

---------------------------------------------------------------------------
(* Properties of the domain tools *)

ToolCalled == toolLast.intent.key # "none"

C10_EventFetchCoversSevenAspects ==
    (ToolCalled /\ tool = "event_recommender" /\ ~toolLast.op.hit) =>
        /\ Len(toolLast.op.searched) = 7
        /\ {toolLast.op.searched[i].aspect : i \in 1..Len(toolLast.op.searched)} =
               {"upcoming_events", "conferences", "workshops", "networking_events",
                "hackathons", "women_tech_events", "virtual_events"}
        /\ toolLast.stored
        /\ \A a \in DOMAIN toolLast.op.payload.data :
               toolLast.op.payload.data[a] # EmptyList

\* C11: on a cache miss of skill gap, success stories, job search, interview
\* prep or wellness, the value persisted under each aspect is the list of
\* result strings the web search produced for that aspect's query, so an
\* aspect is non-empty whenever the search found results for it.
C11_AspectsHoldResultLists ==
    (ToolCalled /\ tool # "event_recommender" /\ ~toolLast.op.hit) =>
        /\ toolLast.stored
        /\ \A a \in DOMAIN toolLast.op.payload.data :
               toolLast.op.payload.data[a] =
                   [type |-> "list",
                    query |-> AspectQuery(tool, a, toolLast.intent),
                    found |-> toolLast.found]

---------------------------------------------------------------------------
(* Properties of the tool registry *)

\* C12: every ToolRegistry() / get_registry() call yields the one registry
\* object and, once it exists, leaves its tools as they were; get_tool(n)
\* is the instance last registered under n; no operation removes a name.
C12_SingletonLastWriterWins ==
    /\ (regLast.op = "construct") =>
           /\ regLast.object = 1
           /\ registry_instance = 1
           /\ Len(registry_objects) = 1
           /\ regLast.existed => regLast.toolsKept
    /\ regLast.namesKept
    /\ registry_instance # 0 =>
           \A n \in ToolNames :
               get_tool(get_all_tools(registry_objects[registry_instance]), n)
                   = registered[n]

\* a second instance was registered under a name, another name was
\* registered after it, and the registry was then obtained again
C12_Witness ==
    /\ regLast.op = "construct"
    /\ regLast.existed
    /\ Len(registry_objects[registry_instance]) = 2
    /\ get_tool(registry_objects[registry_instance], "web_scraper")
           = Instance("WebScraperTool", 2)
    /\ registry_objects[registry_instance][1].name = "web_scraper"

\* C13: decorating a tool class instantiates it and registers the instance
\* under its name, and the decorated name still denotes the class
C13_DecoratorRegistersAndKeepsClass ==
    (regLast.op = "decorate") =>
        /\ bindings[regLast.class] = "class"
        /\ get_tool(CurrentTools(registry_instance, registry_objects),
                    ToolName(regLast.class)).class = regLast.class

\* C14: once the registry is constructed, get_all_tools() is non-empty and
\* get_tool gives an instance of the matching class for the built-in names,
\* WebScraperTool for "web_scraper" and CareerPathTool for "career_path"
C14_BuiltInToolsRegistered ==
    (regLast.op = "construct" /\ ~regLast.existed) =>
        /\ get_all_tools(registry_objects[registry_instance]) # <<>>
        /\ get_tool(registry_objects[registry_instance], "web_scraper").class
               = "WebScraperTool"
        /\ get_tool(registry_objects[registry_instance], "career_path").class
               = "CareerPathTool"

---------------------------------------------------------------------------
(* Properties of selection and scoring *)

\* C15: _select_tools returns the first MAX_TOOLS_PER_QUERY tools of the
\* registered tools by descending score, those of them that reach
\* MIN_SIMILARITY_SCORE: at most MAX_TOOLS_PER_QUERY, none below the
\* threshold, in non-increasing score order, no tool left out outscoring a
\* tool kept, and a tool that reaches the threshold left out only when the
\* result is full.
C15_TopToolsAboveThreshold ==
    selLast.called =>
        LET sel == selLast.selected
            score == selLast.score
            kept == {sel[i] : i \in 1..Len(sel)}
            out == {SelectPool[i] : i \in 1..Len(SelectPool)} \ kept
        IN  /\ Len(sel) <= MAX_TOOLS_PER_QUERY
            /\ Cardinality(kept) = Len(sel)
            /\ kept \subseteq {SelectPool[i] : i \in 1..Len(SelectPool)}
            /\ \A t \in kept : score[t] >= MIN_SIMILARITY_SCORE
            /\ \A i \in 1..Len(sel), j \in 1..Len(sel) : i < j => score[sel[i]] >= score[sel[j]]
            /\ \A t \in out, k \in kept : score[t] <= score[k]
            /\ \A t \in out : score[t] < MIN_SIMILARITY_SCORE \/ Len(sel) = MAX_TOOLS_PER_QUERY

\* all six tools reach the threshold: five are kept, and the one left out
\* has the lowest score, though it was registered first
C15_Witness ==
    /\ selLast.called
    /\ Len(selLast.selected) = 5
    /\ \A i \in 1..5 : selLast.selected[i] # "skill_gap"
    /\ selLast.score["skill_gap"] = 1
    /\ \A t \in {"success_stories", "job_search", "interview_prep",
                  "event_recommender", "web_search"} : selLast.score[t] = 2

\* C16: _score_tool returns a value in [0, 1], equal to 0.7 times the
\* Jaccard similarity of the query and description words plus 0.3 times the
\* Jaccard similarity of the query and knowledge-base words, a similarity
\* over an empty union being 0; a view that makes the scoring fail gives 0.
C16_ScoreIsWeightedJaccard ==
    scoreLast.called =>
        LET q == scoreLast.query
            d == scoreLast.description
            k == scoreLast.kb.words
            s == scoreLast.score
            i1 == Cardinality(q \cap d)
            u1 == IF q \cup d = {} THEN 1 ELSE Cardinality(q \cup d)
            i2 == IF scoreLast.kb.kind = "texts" THEN Cardinality(q \cap k) ELSE 0
            u2 == IF scoreLast.kb.kind # "texts" \/ q \cup k = {}
                  THEN 1 ELSE Cardinality(q \cup k)
        IN  /\ s.den > 0
            /\ 0 <= s.num
            /\ s.num <= s.den
            /\ IF scoreLast.kb.kind = "malformed"
               THEN s.num = 0
               ELSE s.num * (10 * u1 * u2) = s.den * (7 * i1 * u2 + 3 * i2 * u1)

\* a query of two words shares one with a description of two words and one
\* with a knowledge-base text of one word: 0.7 * 1/3 + 0.3 * 1/2
C16_Witness ==
    /\ scoreLast.called
    /\ scoreLast.kb.kind = "texts"
    /\ Cardinality(scoreLast.query) = 2
    /\ Cardinality(scoreLast.query \cap scoreLast.description) = 1
    /\ Cardinality(scoreLast.query \cup scoreLast.description) = 3
    /\ Cardinality(scoreLast.kb.words) = 1
    /\ scoreLast.kb.words \subseteq scoreLast.query
    /\ scoreLast.score.num * 60 = scoreLast.score.den * 23

---------------------------------------------------------------------------
(* Properties of the knowledge base *)

LastValid == ValidResults(FetchData(kbLast.hadKey, kbLast.resp).results)

\* the last operation was one refresh that got results and a file that parses
RefreshedWithResults ==
    /\ kbLast.op \in {"update_career_resources", "update_market_trends", "update_career_insights"}
    /\ kbLast.hadKey
    /\ kbLast.wasJson
    /\ kbLast.resp.kind = "results"
    /\ LastValid # <<>>

\* C21: after a refresh, a result with title and link is under category c
\* of the refreshed document exactly if its title holds c.
C21_PlacedIffTitleHoldsCategory ==
    RefreshedWithResults =>
        \A i \in 1..Len(LastValid) :
        \A k \in LeafKeys(kbLast.file) :
            (LastValid[i] \in SeqToSet(kbDocs[kbLast.file].leaves[k]))
                <=> (k[2] \in LastValid[i].matches)

\* C22: after a refresh that got a result whose title holds a category of
\* its section, the result is in the document under that category, the
\* document carries the time of the refresh, and it was saved.
C22_RefreshAppendsStampsAndSaves ==
    (RefreshedWithResults
        /\ \E k \in LeafKeys(kbLast.file) :
               k[1] = SectionOf(kbLast.file, LastValid[1]) /\ k[2] \in LastValid[1].matches)
    => /\ kbLast.saved
       /\ kbLast.stamped
       /\ \E k \in LeafKeys(kbLast.file) :
              LastValid[1] \in SeqToSet(kbDocs[kbLast.file].leaves[k])

\* C23: get_career_guidance called while a document is unreadable returns a
\* merged view and does not raise.
C23_GuidanceToleratesUnreadable ==
    (kbLast.op = "get_career_guidance" /\ ~kbLast.wasJson) => kbLast.raised = "none"

\* C24: a refresh whose upstream request fails leaves its file unchanged and
\* does not raise, and inside get_career_guidance all three refreshes run.
C24_FailedUpstreamLeavesDocument ==
    /\ \A i \in 1..Len(kbLast.steps) :
           kbLast.steps[i].failed =>
               ~kbLast.steps[i].changed /\ kbLast.steps[i].raised = "none"
    /\ (kbLast.op = "get_career_guidance" /\ \E i \in 1..Len(kbLast.steps) : kbLast.steps[i].failed)
           => Len(kbLast.steps) = 3

\* the refresh of p got a result with a link whose title holds a category
\* of learning_resources
GotMatch(p) ==
    LET valid == ValidResults(racers[p].resp.results)
    IN  /\ valid # <<>>
        /\ valid[1].matches \cap SkeletonCats("career_resources")["learning_resources"] # {}

\* the result of p is under some category of the file
InFile(p) ==
    \E k \in LeafKeys("career_resources") :
        ValidResults(racers[p].resp.results)[1]
            \in SeqToSet(kbDocs["career_resources"].leaves[k])

---------------------------------------------------------------------------
(* Properties of the orchestrator over the knowledge base *)

\* C25: with both credentials unset and skeleton documents, the query
\* "hello there" is answered with the canned line.
C25_NoInformationGivesCannedLine ==
    (/\ orchLast.called
     /\ orchLast.query = PyStr("hello there")
     /\ knowledge_base
     /\ tool_registry
     /\ ~srp_api_key
     /\ ~kb_news_api_key
     /\ \A f \in KbFiles : kbDocs[f] = Skeleton(f))
        => orchLast.result = Returns(CannedNoInfo)

\* C29: a call that validation rejects leaves the history and the documents
\* as they were, the knowledge base is not called and no tool is executed,
\* so no cache is read or written.
C29_RejectedCallChangesNothing ==
    [][(callLog' # callLog /\ Rejected(orchLast'.query))
          => /\ conversation_history' = conversation_history
             /\ kbDocs' = kbDocs
             /\ wsCache' = wsCache
             /\ toolCache' = toolCache
             /\ ~orchLast'.kbCalled
             /\ orchLast'.executed = <<>>]_vars

\* an accepted call was followed by a rejected one: the history holds the
\* two entries of the first
C29_Witness ==
    /\ Len(callLog) = 2
    /\ callLog[1].query = PyStr("hello there")
    /\ callLog[2].query = PyInt5
    /\ knowledge_base
    /\ tool_registry
    /\ Len(conversation_history) = 2
    /\ orchLast.result = Returns(CouldntProcess("Invalid query: Query must be a non-empty string"))

\* C30: job search finds the payload cached under the classified role and
\* location whatever experience level the query names: within 6 hours it
\* issues no search and uses the cached payload, experience level of the
\* earlier query included, and leaves the file as it is.
C30_JobCacheIgnoresExperienceLevel ==
    (ToolCalled /\ tool = "job_search" /\ toolLast.preKind = "entry" /\ toolLast.age < 6)
        => /\ toolLast.op.hit
           /\ toolLast.op.searched = <<>>
           /\ toolLast.payloadIsPre
           /\ ~toolLast.fileChanged
           /\ toolLast.op.payload = toolCache[toolLast.intent.key]
                  \/ toolCache[toolLast.intent.key].kind = "corrupt"
           /\ \A a \in DOMAIN toolLast.op.payload.data :
                  toolLast.op.payload.data[a].query.key = toolLast.intent.key

\* a query naming the senior level was answered from the payload fetched
\* for the entry level
C30_Witness ==
    /\ ToolCalled
    /\ tool = "job_search"
    /\ toolLast.intent.level = "senior"
    /\ toolLast.op.hit
    /\ toolLast.op.searched = <<>>
    /\ toolLast.age < 6
    /\ toolLast.op.payload.data["job_listings"].query.level = "entry"

---------------------------------------------------------------------------
(* Properties of the job scorer and the text cleaner *)

\* C26: every listing gets a score between 0 and 10, no dimension adds more
\* than its weight however many of its keywords are found, a listing with a
\* keyword found scores above 0, and the listings come back by score
\* descending with listings of equal score in input order.
C26_ScoreBoundedAndSortedStable ==
    jobsLast.called =>
        LET r == jobsLast.result
        IN  /\ Len(r) = Len(jobsLast.jobs)
            /\ {r[i].pos : i \in 1..Len(r)} = 1..Len(jobsLast.jobs)
            /\ \A i \in 1..Len(r) :
                   /\ r[i].matches = jobsLast.jobs[r[i].pos]
                   /\ r[i].women_friendly_score \in 0..100
                   /\ \A p \in Parameters : r[i].analysis[p] <= ParameterWeights[p]
                   /\ (\E p \in Parameters : r[i].matches[p] > 0)
                          => r[i].women_friendly_score > 0
            /\ \A i, j \in 1..Len(r) :
                   i < j => \/ r[i].women_friendly_score > r[j].women_friendly_score
                            \/ /\ r[i].women_friendly_score = r[j].women_friendly_score
                               /\ r[i].pos < r[j].pos

\* three listings: two with one keyword of a half-point dimension around one
\* with several keywords of the five-point dimension
C26_Witness ==
    /\ jobsLast.called
    /\ jobsLast.jobs = << <<0, 0, 0, 0, 1, 0>>, <<MaxMatches, 0, 0, 0, 0, 0>>,
                          <<0, 0, 1, 0, 0, 0>> >>
    /\ jobsLast.result[1].pos = 2
    /\ jobsLast.result[1].women_friendly_score = 50
    /\ jobsLast.result[2].pos = 1
    /\ jobsLast.result[3].pos = 3
    /\ jobsLast.result[3].women_friendly_score = 5

\* C27: cleaning a cleaned text gives the cleaned text.
C27_CleanTextIdempotent ==
    cleanLast.called => _clean_text(cleanLast.out) = cleanLast.out

====
